---- MODULE Spec2Model ----
(***************************************************************************)
(* A model of backend/ai_orchestrator.py: the question -> competitor       *)
(* fan-out -> judge pipeline of run_orchestration, its conversation        *)
(* window, its ranking parser and its latency accounting.                  *)
(*                                                                         *)
(* Text is a sequence of one-character strings, so that strip(), find(),   *)
(* rfind(), slicing and JSON decoding are computed on characters.          *)
(* A Python Optional is a sequence of length 0 (None) or 1.                *)
(* Every run of run_orchestration is one element of DOMAIN pc; the         *)
(* variables that are locals of the coroutine are functions of the run.    *)
(***************************************************************************)
EXTENDS Integers, Sequences, FiniteSets, TLC

VARIABLES
    request,        \* run -> the OrchestrateRequest it was called with
    pc,             \* run -> position of the run_orchestration coroutine
    conversation,   \* run -> local `conversation` (the window)
    question,       \* run -> local `question`
    competitors,    \* run -> local `competitors`
    answers,        \* run -> local `answers`
    raw_output,     \* run -> local `raw_output` of judge_answers
    ranking,        \* run -> local `ranking`
    awaiting,       \* run -> index in calls of the call the coroutine awaits (0: none)
    tasks,          \* run -> indices in calls of the gathered competitor calls
    total_start,    \* run -> local `total_start`
    start,          \* run -> local `start` of the stage function being executed
    q_latency,      \* run -> local `q_latency` (clock ticks)
    c_latency,      \* run -> local `c_latency` (clock ticks)
    j_latency,      \* run -> local `j_latency` (clock ticks)
    result,         \* run -> Optional response_payload returned to the caller
    calls,          \* log of every ollama_chat invocation, in creation order
    completed,      \* indices in calls, in the order the calls replied or failed
    heap,           \* address -> the items of the list object at that address
    refs,           \* run -> the addresses its conversation lists are bound to
    now             \* the clock, time.time(), in ticks

vars == <<request, pc, conversation, question, competitors, answers, raw_output,
          ranking, awaiting, tasks, total_start, start, q_latency, c_latency,
          j_latency, result, calls, completed, heap, refs, now>>

locals == <<conversation, question, competitors, answers, raw_output, ranking,
            awaiting, tasks, total_start, start, q_latency, c_latency, j_latency,
            result>>

-----------------------------------------------------------------------------
(* Bounds of the model *)

\* longest conversation history a request carries
MaxHist == 6
\* longest time, in clock ticks, one awaited step may take
MaxDelay == 3
\* clock ticks per millisecond (the clock is finer than the reported 3 decimals)
TicksPerMs == 2

-----------------------------------------------------------------------------
(* Configuration: ai_orchestrator.py lines 14-26, 255 *)

QUESTION_MODEL == "llama3.2"

COMPETITOR_MODELS == <<"mistral:latest", "gemma3:1b", "llama3.2">>

JUDGE_MODEL == "llama3.2"

MAX_TURNS == 5

-----------------------------------------------------------------------------
(* Python values *)

None == <<>>

Some(x) == <<x>>

Runs == DOMAIN pc

\* a Python sequence is falsy when it is None or empty
Truthy(opt) == opt # None /\ Len(opt[1]) > 0

\* s[-k:] for k > 0
LastSlice(s, k) ==
    IF Len(s) > k THEN SubSeq(s, Len(s) - k + 1, Len(s)) ELSE s

\* s[a:b] with 0-based a, b (b exclusive), as Python slices: empty when a >= b
Slice(s, a, b) ==
    IF a >= b THEN <<>> ELSE SubSeq(s, a + 1, b)

Whitespace == {" ", "\n"}

RECURSIVE lstrip(_)
lstrip(s) ==
    IF s # <<>> /\ Head(s) \in Whitespace THEN lstrip(Tail(s)) ELSE s

RECURSIVE rstrip(_)
rstrip(s) ==
    IF s # <<>> /\ s[Len(s)] \in Whitespace
    THEN rstrip(SubSeq(s, 1, Len(s) - 1))
    ELSE s

\* str.strip()
strip(s) == rstrip(lstrip(s))

\* str.find(c): 0-based index of the first occurrence, -1 when absent
find(s, c) ==
    IF \E i \in 1..Len(s) : s[i] = c
    THEN (CHOOSE i \in 1..Len(s) : s[i] = c /\ \A j \in 1..(i - 1) : s[j] # c) - 1
    ELSE -1

\* str.rfind(c): 0-based index of the last occurrence, -1 when absent
rfind(s, c) ==
    IF \E i \in 1..Len(s) : s[i] = c
    THEN (CHOOSE i \in 1..Len(s) : s[i] = c /\ \A j \in (i + 1)..Len(s) : s[j] # c) - 1
    ELSE -1

\* c in s
Contains(s, c) == \E i \in 1..Len(s) : s[i] = c

\* round(x, 3) of a duration of t ticks, in milliseconds: the nearest
\* millisecond, a tie going to the even one (Python rounds half to even)
round3(t) ==
    LET lo == t \div TicksPerMs
        r2 == 2 * (t % TicksPerMs)
    IN  IF r2 < TicksPerMs THEN lo
        ELSE IF r2 > TicksPerMs THEN lo + 1
        ELSE IF lo % 2 = 0 THEN lo ELSE lo + 1

-----------------------------------------------------------------------------
(* JSON values, as json.loads builds them *)

IntV(n) == [t |-> "int", v |-> n]

StrV(s) == [t |-> "str", v |-> s]

NullV == [t |-> "null", v |-> 0]

BoolV(b) == [t |-> "bool", v |-> b]

ListV(items) == [t |-> "list", v |-> items]

\* a dict is its (key, value) pairs in the order they were decoded
DictV(pairs) == [t |-> "dict", v |-> pairs]

\* dict.get(key, default): the value of the last pair decoded for the key
dict_get(d, key, default) ==
    IF \E i \in 1..Len(d.v) : d.v[i].k = key
    THEN d.v[CHOOSE i \in 1..Len(d.v) :
                 d.v[i].k = key /\ \A j \in (i + 1)..Len(d.v) : d.v[j].k # key].x
    ELSE default

-----------------------------------------------------------------------------
(* json.loads on a character sequence.  Indices are Python's: 0-based.      *)
(* Covered: objects, arrays, strings without escapes, integers, null, true, *)
(* false, whitespace.  Fractions and exponents are not modelled.            *)

Digits == {"0", "1", "2", "3", "4", "5", "6", "7", "8", "9"}

DigitVal(c) ==
    CASE c = "0" -> 0 [] c = "1" -> 1 [] c = "2" -> 2 [] c = "3" -> 3
      [] c = "4" -> 4 [] c = "5" -> 5 [] c = "6" -> 6 [] c = "7" -> 7
      [] c = "8" -> 8 [] c = "9" -> 9

\* raise JSONDecodeError
DecodeError == [ok |-> FALSE, val |-> NullV, end |-> 0]

Decoded(val, end) == [ok |-> TRUE, val |-> val, end |-> end]

\* s[i:i+1]
CharAt(s, i) == IF 0 <= i /\ i < Len(s) THEN s[i + 1] ELSE ""

\* s[i:i+n] == lit
StartsWith(s, i, lit) ==
    /\ i + Len(lit) <= Len(s)
    /\ \A j \in 1..Len(lit) : s[i + j] = lit[j]

RECURSIVE skip_ws(_, _)
skip_ws(s, i) ==
    IF CharAt(s, i) \in Whitespace THEN skip_ws(s, i + 1) ELSE i

RECURSIVE digits_end(_, _)
digits_end(s, i) ==
    IF CharAt(s, i) \in Digits THEN digits_end(s, i + 1) ELSE i

RECURSIVE int_of(_)
int_of(ds) ==
    IF ds = <<>> THEN 0
    ELSE 10 * int_of(SubSeq(ds, 1, Len(ds) - 1)) + DigitVal(ds[Len(ds)])

\* NUMBER_RE.match(s, i), integer part only: -?(0|[1-9][0-9]*)
match_number(s, i) ==
    LET neg == CharAt(s, i) = "-"
        b   == IF neg THEN i + 1 ELSE i
        e   == IF CharAt(s, b) = "0" THEN b + 1 ELSE digits_end(s, b)
        n   == int_of(Slice(s, b, e))
    IN  IF e = b THEN DecodeError
        ELSE Decoded(IntV(IF neg THEN 0 - n ELSE n), e)

\* scanstring(s, i): i is the index after the opening quote
scanstring(s, i) ==
    IF \E j \in i..(Len(s) - 1) : s[j + 1] = "\""
    THEN LET j == CHOOSE j \in i..(Len(s) - 1) :
                      s[j + 1] = "\"" /\ \A m \in i..(j - 1) : s[m + 1] # "\""
             body == Slice(s, i, j)
         IN  IF Contains(body, "\n")     \* strict: no control character in a string
             THEN DecodeError
             ELSE Decoded(StrV(body), j + 1)
    ELSE DecodeError                     \* unterminated string

RECURSIVE scan_once(_, _), array_items(_, _, _), object_members(_, _, _)

\* JSONArray(s, i): i is the index after "["
JSONArray(s, i) ==
    LET e == skip_ws(s, i)
    IN  IF CharAt(s, e) = "]" THEN Decoded(ListV(<<>>), e + 1)
        ELSE array_items(s, e, <<>>)

\* the loop of JSONArray: i is where the next element starts
array_items(s, i, acc) ==
    LET item == scan_once(s, i)
    IN  IF ~item.ok THEN DecodeError
        ELSE LET e    == skip_ws(s, item.end)
                 acc2 == Append(acc, item.val)
             IN  IF CharAt(s, e) = "]" THEN Decoded(ListV(acc2), e + 1)
                 ELSE IF CharAt(s, e) = ","
                      THEN array_items(s, skip_ws(s, e + 1), acc2)
                      ELSE DecodeError

\* JSONObject(s, i): i is the index after "{"
JSONObject(s, i) ==
    LET e == skip_ws(s, i)
    IN  IF CharAt(s, e) = "}" THEN Decoded(DictV(<<>>), e + 1)
        ELSE IF CharAt(s, e) = "\"" THEN object_members(s, e + 1, <<>>)
        ELSE DecodeError

\* the loop of JSONObject: i is the index after the key's opening quote
object_members(s, i, acc) ==
    LET key == scanstring(s, i)
    IN  IF ~key.ok THEN DecodeError
        ELSE LET c == skip_ws(s, key.end)
             IN  IF CharAt(s, c) # ":" THEN DecodeError
                 ELSE LET item == scan_once(s, skip_ws(s, c + 1))
                      IN  IF ~item.ok THEN DecodeError
                          ELSE LET e    == skip_ws(s, item.end)
                                   acc2 == Append(acc, [k |-> key.val.v, x |-> item.val])
                                   q    == skip_ws(s, e + 1)
                               IN  IF CharAt(s, e) = "}"
                                   THEN Decoded(DictV(acc2), e + 1)
                                   ELSE IF CharAt(s, e) = "," /\ CharAt(s, q) = "\""
                                        THEN object_members(s, q + 1, acc2)
                                        ELSE DecodeError

\* scanner.scan_once(s, i)
scan_once(s, i) ==
    LET c == CharAt(s, i)
    IN  IF c = "\"" THEN scanstring(s, i + 1)
        ELSE IF c = "{" THEN JSONObject(s, i + 1)
        ELSE IF c = "[" THEN JSONArray(s, i + 1)
        ELSE IF StartsWith(s, i, <<"n", "u", "l", "l">>) THEN Decoded(NullV, i + 4)
        ELSE IF StartsWith(s, i, <<"t", "r", "u", "e">>) THEN Decoded(BoolV(TRUE), i + 4)
        ELSE IF StartsWith(s, i, <<"f", "a", "l", "s", "e">>)
             THEN Decoded(BoolV(FALSE), i + 5)
        ELSE match_number(s, i)

\* json.loads(s): ok is FALSE when it raises JSONDecodeError
json_loads(s) ==
    LET r == scan_once(s, skip_ws(s, 0))
    IN  IF ~r.ok THEN DecodeError
        ELSE IF skip_ws(s, r.end) # Len(s) THEN DecodeError     \* "Extra data"
        ELSE r

-----------------------------------------------------------------------------
(* The ranking parser: the try/except of judge_answers *)

results_key == <<"r", "e", "s", "u", "l", "t", "s">>

\* mutant of parse_try: json.loads on the whole reply, the braces not sliced out
parse_try_unsliced(text) ==
    LET parsed == json_loads(strip(text))
    IN  IF ~parsed.ok THEN [exc |-> "JSONDecodeError", ranking |-> <<>>]
        ELSE IF parsed.val.t # "dict"
             THEN [exc |-> "AttributeError", ranking |-> <<>>]
        ELSE LET got == dict_get(parsed.val, results_key, ListV(<<>>))
             IN  [exc |-> "", ranking |-> IF got.t = "list" THEN got.v ELSE <<>>]

\* mutant of parse_try: the isinstance(ranking, list) check left out
parse_try_unchecked(text) ==
    LET raw0   == strip(text)
        raw    == IF Contains(raw0, "{") /\ Contains(raw0, "}")
                  THEN Slice(raw0, find(raw0, "{"), rfind(raw0, "}") + 1)
                  ELSE raw0
        parsed == json_loads(raw)
    IN  IF ~parsed.ok THEN [exc |-> "JSONDecodeError", ranking |-> <<>>]
        ELSE IF parsed.val.t # "dict"
             THEN [exc |-> "AttributeError", ranking |-> <<>>]
        ELSE LET got == dict_get(parsed.val, results_key, ListV(<<>>))
             IN  [exc |-> "",
                  ranking |-> IF got.t \in {"list", "str", "dict"} THEN got.v ELSE <<got>>]

\* mutant of parse_try: the slice ends at the first "}", so that the first
\* object of the reply is decoded
parse_try_first_object(text) ==
    LET raw0   == strip(text)
        raw    == IF Contains(raw0, "{") /\ Contains(raw0, "}")
                  THEN Slice(raw0, find(raw0, "{"), find(raw0, "}") + 1)
                  ELSE raw0
        parsed == json_loads(raw)
    IN  IF ~parsed.ok THEN [exc |-> "JSONDecodeError", ranking |-> <<>>]
        ELSE IF parsed.val.t # "dict"
             THEN [exc |-> "AttributeError", ranking |-> <<>>]
        ELSE LET got == dict_get(parsed.val, results_key, ListV(<<>>))
             IN  [exc |-> "", ranking |-> IF got.t = "list" THEN got.v ELSE <<>>]

\* the body of the try block: exc names the exception it raises, "" when none
parse_try(text) ==
    LET raw0   == strip(text)
        raw    == IF Contains(raw0, "{") /\ Contains(raw0, "}")
                  THEN Slice(raw0, find(raw0, "{"), rfind(raw0, "}") + 1)
                  ELSE raw0
        parsed == json_loads(raw)
    IN  IF ~parsed.ok THEN [exc |-> "JSONDecodeError", ranking |-> <<>>]
        ELSE IF parsed.val.t # "dict"           \* no .get on str, list, int, None
             THEN [exc |-> "AttributeError", ranking |-> <<>>]
        ELSE LET got == dict_get(parsed.val, results_key, ListV(<<>>))
             IN  [exc |-> "", ranking |-> IF got.t = "list" THEN got.v ELSE <<>>]

\* mutant of except_clause: `except json.JSONDecodeError`
except_decode_error(exc) == exc = "JSONDecodeError"

\* `except Exception`: the exception classes the handler catches
except_clause(exc) == exc \in {"JSONDecodeError", "AttributeError"}

\* lines 229-247: raised is TRUE when an exception leaves judge_answers
parse_ranking(text) ==
    LET body == parse_try(text)
    IN  IF body.exc = "" THEN [raised |-> FALSE, ranking |-> body.ranking]
        ELSE IF except_clause(body.exc) THEN [raised |-> FALSE, ranking |-> <<>>]
        ELSE [raised |-> TRUE, ranking |-> <<>>]

-----------------------------------------------------------------------------
(* What a backend may reply: the `content` of the first choice of the      *)
(* response that ollama_chat reads (lines 59-60).                           *)

\* longest results list the judge is made to reply
MaxRank == 3

DigitChar(d) == <<"0", "1", "2", "3", "4", "5", "6", "7", "8", "9">>[d + 1]

RECURSIVE int_chars(_)
int_chars(n) ==
    IF n < 10 THEN <<DigitChar(n)>>
    ELSE int_chars(n \div 10) \o <<DigitChar(n % 10)>>

Quoted(s) == <<"\"">> \o s \o <<"\"">>

\* the JSON text of value v, with sp written after every ":" and ","
RECURSIVE dumps(_, _), dumps_items(_, _), dumps_pairs(_, _)
dumps(v, sp) ==
    CASE v.t = "int"  -> IF v.v < 0 THEN <<"-">> \o int_chars(0 - v.v) ELSE int_chars(v.v)
      [] v.t = "str"  -> Quoted(v.v)
      [] v.t = "null" -> <<"n", "u", "l", "l">>
      [] v.t = "bool" -> IF v.v THEN <<"t", "r", "u", "e">> ELSE <<"f", "a", "l", "s", "e">>
      [] v.t = "list" -> <<"[">> \o dumps_items(v.v, sp) \o <<"]">>
      [] v.t = "dict" -> <<"{">> \o dumps_pairs(v.v, sp) \o <<"}">>

dumps_items(items, sp) ==
    IF items = <<>> THEN <<>>
    ELSE IF Len(items) = 1 THEN dumps(items[1], sp)
    ELSE dumps(items[1], sp) \o <<",">> \o sp \o dumps_items(Tail(items), sp)

dumps_pairs(pairs, sp) ==
    IF pairs = <<>> THEN <<>>
    ELSE LET one == Quoted(pairs[1].k) \o <<":">> \o sp \o dumps(pairs[1].x, sp)
         IN  IF Len(pairs) = 1 THEN one
             ELSE one \o <<",">> \o sp \o dumps_pairs(Tail(pairs), sp)

\* every sequence over S of length at most n
SeqsUpTo(S, n) == UNION {[1..k -> S] : k \in 0..n}

\* results lists of competitor numbers
RankLists == SeqsUpTo({IntV(1), IntV(2), IntV(3)}, MaxRank)

\* results lists holding other things than competitor numbers
MixedLists ==
    { <<StrV(<<"a">>)>>, <<NullV>>, <<ListV(<<IntV(1)>>)>>, <<IntV(2), StrV(<<"}">>)>>,
      <<DictV(<<[k |-> <<"a">>, x |-> IntV(1)]>>), IntV(1)>>, <<BoolV(TRUE), IntV(12)>>,
      <<IntV(0 - 1), IntV(0)>> }

\* JSON objects whose results field is the list L
ObjectsWith(L) ==
    { DictV(<<[k |-> results_key, x |-> ListV(L)]>>) }
    \cup (IF Len(L) = 2
          THEN { DictV(<<[k |-> <<"a">>, x |-> IntV(1)], [k |-> results_key, x |-> ListV(L)]>>),
                 DictV(<<[k |-> results_key, x |-> ListV(L)],
                         [k |-> <<"b">>, x |-> DictV(<<[k |-> results_key, x |-> StrV(<<"x">>)]>>)]>>) }
          ELSE {})

\* brace-free prose a model puts before and after its JSON
ProseBefore == { <<>>, <<"b", "l", "a", "h", " ">>, <<" ", "\n">> }

ProseAfter == { <<>>, <<" ", "t", "r", "a", "i", "l", "i", "n", "g">>, <<"\n">> }

\* every results list the wrapped replies hold
ResultLists == RankLists \cup MixedLists

\* the pairs <<reply text, L>> of the replies made of brace-free prose, one
\* JSON object whose results field is the list L, and brace-free prose
WrappedReplies ==
    UNION { { <<pre \o dumps(obj, sp) \o post, L>> :
                pre \in ProseBefore, obj \in ObjectsWith(L),
                sp \in (IF Len(L) <= 2 THEN {<<>>, <<" ">>} ELSE {<<>>}),
                post \in ProseAfter }
            : L \in ResultLists }

\* JSON objects without a results field
NoResultsObjects ==
    { DictV(<<>>),
      DictV(<<[k |-> <<"a">>, x |-> ListV(<<IntV(1)>>)]>>) }

\* JSON objects whose results field is no list
NotListObjects ==
    { DictV(<<[k |-> results_key, x |-> StrV(<<"x">>)]>>),
      DictV(<<[k |-> results_key, x |-> IntV(3)]>>),
      DictV(<<[k |-> results_key, x |-> NullV]>>),
      DictV(<<[k |-> results_key, x |-> DictV(<<>>)]>>) }

OtherObjects == NoResultsObjects \cup NotListObjects

\* the replies made of brace-free prose, one of the objects OS, and brace-free prose
Wrapped(OS) ==
    { pre \o dumps(o, <<>>) \o post : pre \in ProseBefore, o \in OS, post \in ProseAfter }

\* replies holding two JSON objects one after the other
TwoObjectReplies ==
    { dumps(a, <<>>) \o mid \o dumps(b, <<>>) :
        a \in OtherObjects \cup ObjectsWith(<<IntV(2), IntV(1)>>),
        mid \in { <<>>, <<" ">>, <<" ", "o", "r", " ">>, <<",">> },
        b \in ObjectsWith(<<IntV(1), IntV(3)>>) \cup {DictV(<<>>)} }

\* replies holding two or three JSON objects one after the other, with or
\* without prose before, between and after them
SeveralObjectReplies ==
    { pre \o dumps(a, <<>>) \o mid \o dumps(b, <<>>) \o rest \o post :
        pre \in ProseBefore,
        a \in ObjectsWith(<<IntV(2), IntV(1)>>),
        mid \in { <<>>, <<" ", "o", "r", " ">>, <<"\n">> },
        b \in ObjectsWith(<<IntV(1), IntV(3)>>) \cup {DictV(<<>>)},
        rest \in { <<>>, <<" ">> \o dumps(DictV(<<[k |-> results_key, x |-> ListV(<<IntV(3)>>)]>>), <<>>) },
        post \in ProseAfter }

\* replies that are not JSON text after slicing
InvalidJsonReplies ==
    { <<>>,
      <<"n", "o", " ", "j", "s", "o", "n", " ", "h", "e", "r", "e">>,
      <<"{">>,
      <<"}">>,
      <<"}", " ", "{">>,
      <<"{", "\"", "r", "e", "s", "u", "l", "t", "s", "\"", ":", "[", "1", ",", "}">>,
      <<"{", "\"", "r", "e", "s", "u", "l", "t", "s", "\"", " ", "[", "1", "]", "}">>,
      <<"{", "r", "e", "s", "u", "l", "t", "s", ":", "[", "1", "]", "}">>,
      <<"{", "\"", "r", "e", "s", "u", "l", "t", "s", "\"", ":", "[", "1", "]">>,
      <<"\"", "r", "e", "s", "u", "l", "t", "s", "\"", ":", "[", "1", "]", "}">>,
      <<"{", "\"", "r", "e", "s", "u", "l", "t", "s", "\"", ":", "[", "1", "]", "]", "}">>,
      <<"{", "\"", "r", "e", "s", "u", "l", "t", "s", "\"", ":", "[", "1", ",", ",", "2", "]", "}">>,
      <<"{", "\"", "r", "e", "s", "u", "l", "t", "s", "\"", ":", "[", "0", "1", "]", "}">>,
      <<"{", "\"", "r", "e", "s", "u", "\n", "l", "t", "s", "\"", ":", "[", "1", "]", "}">>,
      <<"{", "\"", "r", "e", "s", "u", "l", "t", "s", "\"", ":", "[", "1", "]", ",", "}">>,
      <<"{", "\"", "r", "e", "s", "u", "l", "t", "s", "\"", ":", "[", "1", "]", "}", "{", "\"", "r", "e", "s", "u", "l", "t", "s", "\"", ":", "[", "2", "]", "}">>,
      <<"{", "\"", "r", "e", "s", "u", "l", "t", "s", "\"", ":", "[", "1", "]", "}", " ", "a", "n", "d", " ", "{", "\"", "r", "e", "s", "u", "l", "t", "s", "\"", ":", "[", "2", "]", "}">>,
      <<"{", "\"", "a", "\"", ":", "1", "}", " ", "{", "\"", "r", "e", "s", "u", "l", "t", "s", "\"", ":", "[", "2", "]", "}">>,
      <<"x", "}", "{", "y">>,
      <<"{", "\"", "r", "e", "s", "u", "l", "t", "s", "\"", ":", "[", "1", "]", " ", "\"", "a", "\"", ":", "2", "}">>,
      <<"{", "\"", "r", "e", "s", "u", "l", "t", "s", "\"", ":", "[", "1", "]", ",", "\"", "a", "\"", "}">>,
      <<"{", "\"", "r", "e", "s", "u", "l", "t", "s", "\"", ":", "\"", "a">>,
      <<"{", ",", "}">>,
      <<"{", "\"", "r", "e", "s", "u", "l", "t", "s", "\"", ":", "[", "n", "u", "l", "]", "}">>,
      <<"{", "\"", "r", "e", "s", "u", "l", "t", "s", "\"", ":", "[", "1", " ", "2", "]", "}">>,
      <<"-">>,
      <<"{", "\"", "r", "e", "s", "u", "l", "t", "s", "\"", ":", "[", "-", "]", "}">> }

\* replies that decode to something else than an object
NonObjectReplies ==
    { <<"[", "1", ",", "2", "]">>,
      <<"3">>,
      <<"n", "u", "l", "l">>,
      <<"\"", "x", "\"">> }

\* replies that decode to an object without a results field
NoResultsReplies ==
    { <<"{", "}">>,
      <<"{", " ", "}">>,
      <<"{", "\"", "a", "\"", ":", "{", "\"", "r", "e", "s", "u", "l", "t", "s", "\"", ":", "[", "1", "]", "}", "}">>,
      <<"{", "\"", "R", "e", "s", "u", "l", "t", "s", "\"", ":", "[", "1", "]", "}">> }

\* replies that decode to an object whose results field is no list
NotListReplies ==
    { <<"{", "\"", "r", "e", "s", "u", "l", "t", "s", "\"", ":", " ", "\"", "n", "o", "t", "-", "a", "-", "l", "i", "s", "t", "\"", "}">>,
      <<"{", "\"", "r", "e", "s", "u", "l", "t", "s", "\"", ":", "[", "1", "]", ",", "\"", "r", "e", "s", "u", "l", "t", "s", "\"", ":", "\"", "x", "\"", "}">>,
      <<"{", "\"", "r", "e", "s", "u", "l", "t", "s", "\"", ":", "t", "r", "u", "e", "}">>,
      <<"{", "\"", "r", "e", "s", "u", "l", "t", "s", "\"", ":", "f", "a", "l", "s", "e", "}">>,
      <<"{", "\"", "r", "e", "s", "u", "l", "t", "s", "\"", ":", "n", "u", "l", "l", "}">>,
      <<"{", "\"", "r", "e", "s", "u", "l", "t", "s", "\"", ":", "{", "}", "}">>,
      <<"{", "\"", "r", "e", "s", "u", "l", "t", "s", "\"", ":", "3", "}">> }

\* pairs <<reply, L>>: other replies from which the results list L is extracted
BracedReplies ==
    { <<<<"{", "\"", "r", "e", "s", "u", "l", "t", "s", "\"", ":", "[", "-", "1", "]", "}">>,
         <<IntV(-1)>>>>,
      <<<<"{", "\"", "r", "e", "s", "u", "l", "t", "s", "\"", ":", "[", "\"", "}", "\"", "]", "}">>,
         <<StrV(<<"}">>)>>>>,
      <<<<"{", "\"", "r", "e", "s", "u", "l", "t", "s", "\"", ":", "[", "\"", "{", "\"", "]", "}">>,
         <<StrV(<<"{">>)>>>>,
      <<<<"a", " ", "}", " ", "{", "\"", "r", "e", "s", "u", "l", "t", "s", "\"", ":", "[", "1", "]", "}">>,
         <<IntV(1)>>>>,
      <<<<"{", "\"", "r", "e", "s", "u", "l", "t", "s", "\"", ":", "[", "1", "]", "}", " ", "{">>,
         <<IntV(1)>>>>,
      <<<<"{", "\"", "r", "e", "s", "u", "l", "t", "s", "\"", ":", "\"", "x", "\"", ",", "\"", "r", "e", "s", "u", "l", "t", "s", "\"", ":", "[", "2", "]", "}">>,
         <<IntV(2)>>>>,
      <<<<"{", "\"", "r", "e", "s", "u", "l", "t", "s", "\"", ":", "\n", "[", "1", "]", "}">>,
         <<IntV(1)>>>>,
      <<<<" ", " ", "{", "\"", "r", "e", "s", "u", "l", "t", "s", "\"", ":", "[", "3", ",", "1", ",", "2", "]", "}", " ", " ">>,
         <<IntV(3), IntV(1), IntV(2)>>>>,
      <<<<"b", "l", "a", "h", " ", "{", "\"", "r", "e", "s", "u", "l", "t", "s", "\"", ":", "[", "2", ",", "1", ",", "3", "]", "}", " ", "t", "r", "a", "i", "l", "i", "n", "g">>,
         <<IntV(2), IntV(1), IntV(3)>>>>,
      <<<<"{", "\"", "r", "e", "s", "u", "l", "t", "s", "\"", ":", "[", "[", "1", "]", ",", "n", "u", "l", "l", ",", "\"", "a", "\"", "]", "}">>,
         <<ListV(<<IntV(1)>>), NullV, StrV(<<"a">>)>>>>,
      <<<<"{", "\"", "r", "e", "s", "u", "l", "t", "s", "\"", ":", "[", "{", "\"", "a", "\"", ":", "1", "}", "]", "}">>,
         <<DictV(<<[k |-> <<"a">>, x |-> IntV(1)]>>)>>>>,
      <<<<"{", "\"", "r", "e", "s", "u", "l", "t", "s", "\"", ":", "[", "1", "0", ",", "2", "]", "}">>,
         <<IntV(10), IntV(2)>>>>,
      <<<<"{", " ", "\"", "r", "e", "s", "u", "l", "t", "s", "\"", " ", ":", " ", "[", " ", "1", " ", ",", " ", "2", " ", "]", " ", "}">>,
         <<IntV(1), IntV(2)>>>>,
      <<<<"{", "\"", "r", "e", "s", "u", "l", "t", "s", "\"", ":", "[", "]", "}">>,
         <<>>>>,
      <<<<"{", "\"", "r", "e", "s", "u", "l", "t", "s", "\"", ":", "[", " ", "]", "}">>,
         <<>>>>,
      <<<<"\n", "{", "\"", "r", "e", "s", "u", "l", "t", "s", "\"", ":", "[", "2", "]", "}", "\n">>,
         <<IntV(2)>>>>,
      <<<<"[", "{", "\"", "r", "e", "s", "u", "l", "t", "s", "\"", ":", "[", "1", "]", "}", "]">>,
         <<IntV(1)>>>>,
      <<<<"{", "\"", "r", "e", "s", "u", "l", "t", "s", "\"", ":", "[", "0", "]", "}">>,
         <<IntV(0)>>>> }

\* every reply the judge model is made to give
JudgeContents ==
    { w[1] : w \in WrappedReplies }
    \cup Wrapped(OtherObjects)
    \cup TwoObjectReplies \cup SeveralObjectReplies
    \cup InvalidJsonReplies \cup NonObjectReplies \cup NoResultsReplies \cup NotListReplies
    \cup { w[1] : w \in BracedReplies }

\* a few judge replies, one of each kind
JudgeSample ==
    { <<"{", "\"", "r", "e", "s", "u", "l", "t", "s", "\"", ":", "[", "3", ",", "1", ",", "2", "]", "}">>,
      <<"b", "l", "a", "h", " ", "{", "\"", "r", "e", "s", "u", "l", "t", "s", "\"", ":", "[", "2", ",", "1", ",", "3", "]", "}", " ", "t", "r", "a", "i", "l", "i", "n", "g">>,
      <<"n", "o", " ", "j", "s", "o", "n", " ", "h", "e", "r", "e">>,
      <<"{", "\"", "r", "e", "s", "u", "l", "t", "s", "\"", ":", " ", "\"", "x", "\"", "}">>,
      <<"[", "1", ",", "2", "]">>,
      <<>> }

QuestionContents == { <<"Q", "1">>, <<" ", "Q", "2", "\n">> }

AnswerContents == { <<"A">>, <<"B", " ">> }

-----------------------------------------------------------------------------
(* Requests: schemas.py OrchestrateRequest *)

\* the k-th turn of a history a caller sends
HistTurn(k) ==
    [ question |-> <<"H", DigitChar(k)>>,
      answers  |-> IF k % 2 = 0
                   THEN << <<"x", DigitChar(k)>>, <<"y", DigitChar(k)>> >>
                   ELSE << <<"x", DigitChar(k)>>, <<"y", DigitChar(k)>>, <<"z", DigitChar(k)>> >>,
      ranking  |-> IF k % 3 = 0 THEN <<>> ELSE <<IntV(2), IntV(1)>> ]

History(n) == [k \in 1..n |-> HistTurn(k)]

\* the conversation fields of the requests: None, and histories of 0..MaxHist turns
Conversations == {None} \cup { Some(History(n)) : n \in 0..MaxHist }

Request(conv) ==
    [ session_id      |-> "s1",
      question        |-> None,
      conversation    |-> conv,
      num_competitors |-> 3,
      temperature     |-> 7 ]       \* tenths

-----------------------------------------------------------------------------
(* Prompts.  A prompt is the sequence of its lines; a line is the literal   *)
(* text of the f-string (label), the number and the text interpolated       *)
(* into it.  A line of interpolated text alone has label "".                *)

Line(label, n, text) == [label |-> label, n |-> n, text |-> text]

BlankLine == Line("", 0, <<>>)

TextLine(text) == Line("", 0, text)

\* mutant of turn_block: the positions of enumerate() shown as they are, 0-based
turn_block_zero_based(idx, turn) ==
    <<Line("Turn", idx - 1, <<>>), Line("Question", 0, turn.question)>>
    \o [i \in 1..Len(turn.answers) |-> Line("Competitor", i - 1, turn.answers[i])]
    \o (IF turn.ranking # <<>> THEN <<Line("Ranking", 0, turn.ranking)>> ELSE <<>>)
    \o <<BlankLine>>

\* the lines of one turn: lines 74-85
turn_block(idx, turn) ==
    <<Line("Turn", idx, <<>>), Line("Question", 0, turn.question)>>
    \o [i \in 1..Len(turn.answers) |-> Line("Competitor", i, turn.answers[i])]
    \o (IF turn.ranking # <<>> THEN <<Line("Ranking", 0, turn.ranking)>> ELSE <<>>)
    \o <<BlankLine>>

RECURSIVE turn_blocks(_, _)
turn_blocks(conv, idx) ==
    IF idx > Len(conv) THEN <<>>
    ELSE turn_block(idx, conv[idx]) \o turn_blocks(conv, idx + 1)

\* lines 67-87
build_context_block(conv) ==
    IF conv = <<>> THEN <<>>
    ELSE <<Line("Previous Conversation Context:", 0, <<>>), BlankLine>>
         \o turn_blocks(conv, 1)

RECURSIVE strip_lines(_)
\* str.strip() of a prompt: the blank lines at its two ends go
strip_lines(ls) ==
    IF ls # <<>> /\ Head(ls) = BlankLine THEN strip_lines(Tail(ls))
    ELSE IF ls # <<>> /\ ls[Len(ls)] = BlankLine
         THEN strip_lines(SubSeq(ls, 1, Len(ls) - 1))
         ELSE ls

\* lines 92-98
build_initial_messages ==
    << [ role    |-> "user",
         content |-> <<Line("Please come up with a challenging, nuanced question", 0, <<>>)>> ] >>

\* lines 122-136: the one message every competitor gets
competitor_messages(q, conv) ==
    << [ role    |-> "user",
         content |-> strip_lines(
             <<BlankLine>> \o build_context_block(conv)
             \o <<BlankLine, BlankLine, Line("Current Question:", 0, <<>>), TextLine(q),
                  BlankLine, Line("Provide your best possible answer", 0, <<>>),
                  BlankLine>>) ] >>

\* mutant of combined_answers: the heading takes enumerate()'s 0-based i
combined_answers_zero_based(ans) ==
    IF ans = <<>> THEN <<>>
    ELSE LET block(i) == <<Line("Competitor", i - 1, <<>>), TextLine(ans[i]), BlankLine>>
             F[i \in 0..Len(ans)] == IF i = 0 THEN <<>> ELSE F[i - 1] \o block(i)
         IN  F[Len(ans)]

\* lines 166-168
combined_answers(ans) ==
    IF ans = <<>> THEN <<>>
    ELSE LET block(i) == <<Line("Competitor", i, <<>>), TextLine(ans[i]), BlankLine>>
             F[i \in 0..Len(ans)] == IF i = 0 THEN <<>> ELSE F[i - 1] \o block(i)
         IN  F[Len(ans)]

\* lines 158-193
build_judge_prompt(q, ans, conv) ==
    strip_lines(
        <<BlankLine, Line("You must rank the competitors from best to worst.", 0, <<>>),
          BlankLine>>
        \o build_context_block(conv)
        \o <<BlankLine, BlankLine, Line("Current Question:", 0, <<>>), TextLine(q),
             BlankLine, Line("Responses:", 0, <<>>)>>
        \o combined_answers(ans)
        \o <<BlankLine, BlankLine,
             Line("Return ONLY valid JSON in this exact structure:", 0, <<>>),
             Line("Rules:", 0, <<>>), BlankLine>>)

\* lines 206-215
judge_messages(q, ans, conv) ==
    << [ role    |-> "system",
         content |-> <<Line("You are a strict ranking engine. Output JSON only.", 0, <<>>)>> ],
       [ role    |-> "user",
         content |-> build_judge_prompt(q, ans, conv) ] >>

-----------------------------------------------------------------------------
(* The chat client: ollama_chat, lines 33-60 *)

\* the log entry of one invocation: the payload it posts, and what came back
ollama_chat(r, kind, model, messages, temperature, response_format, status) ==
    [ run      |-> r,
      kind     |-> kind,
      payload  |-> [ model       |-> model,
                     messages    |-> messages,
                     temperature |-> temperature,
                     max_tokens  |-> 500,
                     format      |-> IF response_format = Some("json")
                                     THEN Some("json") ELSE None ],
      status   |-> status,         \* "pending", "inflight", "replied", "failed"
      content  |-> <<>>,           \* the reply's content, as the backend sent it
      returned |-> <<>> ]          \* what ollama_chat returned

\* the response arrives: ollama_chat returns its content, stripped (line 60)
Replied(call, content) ==
    [call EXCEPT !.status = "replied", !.content = content, !.returned = strip(content)]

\* mutant of Failed: the request is posted again when it fails
Failed_posted_again(call) == [call EXCEPT !.status = "inflight"]

\* the post fails or raise_for_status raises (lines 51-57)
Failed(call) == [call EXCEPT !.status = "failed"]

-----------------------------------------------------------------------------
(* run_orchestration, lines 252-302.  One action is the code a coroutine    *)
(* runs between two awaits.                                                 *)

\* mutant of window: request.conversation[:MAX_TURNS], the oldest turns kept
window_oldest(req) ==
    IF Truthy(req.conversation)
    THEN SubSeq(req.conversation[1], 1,
                IF Len(req.conversation[1]) > MAX_TURNS THEN MAX_TURNS
                ELSE Len(req.conversation[1]))
    ELSE <<>>

\* mutant of window: one turn too many kept, request.conversation[-(MAX_TURNS + 1):]
window_one_more(req) ==
    IF Truthy(req.conversation)
    THEN LastSlice(req.conversation[1], MAX_TURNS + 1)
    ELSE <<>>

\* line 256: request.conversation[-MAX_TURNS:] if request.conversation else []
window(req) ==
    IF Truthy(req.conversation)
    THEN LastSlice(req.conversation[1], MAX_TURNS)
    ELSE <<>>

\* mutant of competitor_tasks: the judge's own model is not asked to compete
competitor_tasks_without_judge(r, msgs) ==
    LET models == SelectSeq(COMPETITOR_MODELS, LAMBDA mdl : mdl # JUDGE_MODEL)
    IN  [i \in 1..Len(models) |->
            ollama_chat(r, "competitor", models[i], msgs, 0, None, "pending")]

\* mutant of competitor_tasks: as many competitors as the request asks for,
\* COMPETITOR_MODELS[:request.num_competitors]
competitor_tasks_by_request(r, msgs) ==
    LET n == IF request[r].num_competitors < Len(COMPETITOR_MODELS)
             THEN request[r].num_competitors ELSE Len(COMPETITOR_MODELS)
    IN  [i \in 1..n |->
            ollama_chat(r, "competitor", COMPETITOR_MODELS[i], msgs, 0, None, "pending")]

\* lines 140-143: one ollama_chat coroutine per configured model
competitor_tasks(r, msgs) ==
    [i \in 1..Len(COMPETITOR_MODELS) |->
        ollama_chat(r, "competitor", COMPETITOR_MODELS[i], msgs, 0, None, "pending")]

\* mutant of gather_done: asyncio.wait(FIRST_COMPLETED), one reply is enough
gather_done_first(ts) == \E i \in 1..Len(ts) : calls[ts[i]].status = "replied"

\* mutant of gather_done: return_exceptions=True, a failed call counts as done
gather_done_settled(ts) ==
    \A i \in 1..Len(ts) : calls[ts[i]].status \in {"replied", "failed"}

\* asyncio.gather(*tasks) returns once every awaitable has returned
gather_done(ts) == \A i \in 1..Len(ts) : calls[ts[i]].status = "replied"

\* mutant of gather_raises: asyncio.wait_for around the gather, which raises
\* TimeoutError while a call is still in flight
gather_raises_on_timeout(ts) ==
    \E i \in 1..Len(ts) : calls[ts[i]].status \in {"failed", "inflight"}

\* asyncio.gather(*tasks) raises once an awaitable has raised
gather_raises(ts) == \E i \in 1..Len(ts) : calls[ts[i]].status = "failed"

\* mutant of gather: the results in the order the calls completed
gather_as_completed(ts) ==
    LET order == SelectSeq(completed, LAMBDA c : \E i \in 1..Len(ts) : ts[i] = c)
    IN  [i \in 1..Len(order) |-> calls[order[i]].returned]

\* mutant of gather: the answers kept in a per-model cache of the module,
\* which every run writes and reads
gather_from_shared_cache(ts) ==
    [i \in 1..Len(ts) |->
        LET same == {c \in 1..Len(calls) :
                        /\ calls[c].kind = "competitor"
                        /\ calls[c].payload.model = calls[ts[i]].payload.model
                        /\ calls[c].status = "replied"}
        IN  calls[CHOOSE c \in same : \A d \in same : d <= c].returned]

\* asyncio.gather(*tasks): the results in the order of the awaitables
gather(ts) == [i \in 1..Len(ts) |-> calls[ts[i]].returned]

\* mutant of total_elapsed: measured from the start of the last stage
total_elapsed_of_stage(r, t) == t - start[r]

\* line 279: time.time() - total_start, at time t
total_elapsed(r, t) == t - total_start[r]

\* mutant of updated_conversation: the history cut to MAX_TURNS after the append
updated_conversation_cut(conv, q, ans, rk) ==
    LastSlice(conv \o << [question |-> q, answers |-> ans, ranking |-> rk] >>, MAX_TURNS)

\* lines 281-286
updated_conversation(conv, q, ans, rk) ==
    conv \o << [question |-> q, answers |-> ans, ranking |-> rk] >>

\* lines 288-300
response_payload(r, total_time) ==
    [ question     |-> question[r],
      competitors  |-> competitors[r],
      answers      |-> answers[r],
      ranking      |-> ranking[r],
      latency      |-> [ question_generation_sec   |-> round3(q_latency[r]),
                         competitor_generation_sec |-> round3(c_latency[r]),
                         judge_sec                 |-> round3(j_latency[r]),
                         total_sec                 |-> total_time ],
      conversation |-> updated_conversation(conversation[r], question[r],
                                            answers[r], ranking[r]) ]

-----------------------------------------------------------------------------
(* List objects.  A Python list has an identity: two names bound to one    *)
(* list see each other's changes.  heap maps the address of every list     *)
(* that holds a conversation to its items; an address is <<run, serial>>,  *)
(* with serial 0 for the list the request of the run carries.              *)

\* a name bound to no list (None, or not assigned yet)
NULL == <<>>

\* schemas.py lines 22-25: every request that carries a conversation carries a
\* list of its own, built from the body of the HTTP call
request_objects(reqs) ==
    [ a \in { <<r, 0>> : r \in { x \in DOMAIN reqs : reqs[x].conversation # None } } |->
        reqs[a[1]].conversation[1] ]

request_refs(reqs) ==
    [ r \in DOMAIN reqs |->
        [ request              |-> IF reqs[r].conversation # None THEN <<r, 0>> ELSE NULL,
          conversation         |-> NULL,
          updated_conversation |-> NULL ] ]

\* the address of the next list run r creates
fresh(h, r) ==
    <<r, CHOOSE n \in 1..(Cardinality(DOMAIN h) + 1) :
            /\ <<r, n>> \notin DOMAIN h
            /\ \A m \in 1..(n - 1) : <<r, m>> \in DOMAIN h>>

\* line 256 on objects: a slice of a list is a new list, and so is []
window_object(r) ==
    LET src   == refs[r].request
        items == IF src # NULL /\ heap[src] # <<>>
                 THEN LastSlice(heap[src], MAX_TURNS)
                 ELSE <<>>
    IN  [ heap |-> heap @@ (fresh(heap, r) :> items), at |-> fresh(heap, r) ]

\* lines 282-286: the dict literal of the new turn
new_turn(r) == [question |-> question[r], answers |-> answers[r], ranking |-> ranking[r]]

\* mutant of updated_conversation_object: the turn is appended in place to
\* the list of the request, request.conversation.append({...}), and that
\* list is returned
updated_conversation_in_place(r, turn) ==
    IF refs[r].request = NULL
    THEN [ heap |-> heap @@ (fresh(heap, r) :> Append(heap[refs[r].conversation], turn)),
           at   |-> fresh(heap, r) ]
    ELSE [ heap |-> [heap EXCEPT ![refs[r].request] = Append(@, turn)],
           at   |-> refs[r].request ]

\* lines 282-286 on objects: conversation + [{...}] is a new list; neither
\* operand is changed
updated_conversation_object(r, turn) ==
    [ heap |-> heap @@ (fresh(heap, r) :> Append(heap[refs[r].conversation], turn)),
      at   |-> fresh(heap, r) ]

\* line 258: the run has left `async with httpx.AsyncClient() as client`, by
\* its end or by an exception; leaving it closes the client and the
\* connections of the calls posted through it
client_closed(r) == pc[r] \in {"Done", "Error"}

\* lines 253-259 and generate_question up to its await (lines 102-109)
Begin(r) ==
    /\ pc[r] = "Start"
    /\ total_start' = [total_start EXCEPT ![r] = now]
    /\ conversation' = [conversation EXCEPT ![r] = window(request[r])]
    /\ heap' = window_object(r).heap
    /\ refs' = [refs EXCEPT ![r].conversation = window_object(r).at]
    /\ start' = [start EXCEPT ![r] = now]
    /\ calls' = Append(calls, ollama_chat(r, "question", QUESTION_MODEL,
                                          build_initial_messages, 0, None, "inflight"))
    /\ awaiting' = [awaiting EXCEPT ![r] = Len(calls) + 1]
    /\ pc' = [pc EXCEPT ![r] = "AwaitQuestion"]
    /\ UNCHANGED <<request, question, competitors, answers, raw_output, ranking, tasks,
                   q_latency, c_latency, j_latency, result, completed, now>>

\* the question call replies: lines 111 and 119-145, up to the await of gather
QuestionReply(r, QC, D) ==
    \E content \in QC, d \in D :
        LET c      == awaiting[r]
            calls1 == [calls EXCEPT ![c] = Replied(@, content)]
            q      == calls1[c].returned
            msgs   == competitor_messages(q, conversation[r])
            new    == competitor_tasks(r, msgs)
        IN  /\ pc[r] = "AwaitQuestion"
            /\ calls[c].status = "inflight"
            /\ now' = now + d
            /\ completed' = Append(completed, c)
            /\ question' = [question EXCEPT ![r] = q]
            /\ q_latency' = [q_latency EXCEPT ![r] = now' - start[r]]
            /\ start' = [start EXCEPT ![r] = now']
            /\ calls' = calls1 \o new
            /\ tasks' = [tasks EXCEPT ![r] = [i \in 1..Len(new) |-> Len(calls1) + i]]
            /\ awaiting' = [awaiting EXCEPT ![r] = 0]
            /\ pc' = [pc EXCEPT ![r] = "AwaitGather"]
            /\ UNCHANGED <<heap, refs, request, conversation, competitors, answers, raw_output,
                           ranking, total_start, c_latency, j_latency, result>>

\* the question call fails: the exception leaves run_orchestration
QuestionFail(r) ==
    LET c == awaiting[r]
    IN  /\ pc[r] = "AwaitQuestion"
        /\ calls[c].status = "inflight"
        /\ calls' = [calls EXCEPT ![c] = Failed(@)]
        /\ completed' = Append(completed, c)
        /\ awaiting' = [awaiting EXCEPT ![r] = 0]
        /\ pc' = [pc EXCEPT ![r] = "Error"]
        /\ UNCHANGED <<heap, refs, request, conversation, question, competitors, answers, raw_output,
                       ranking, tasks, total_start, start, q_latency, c_latency,
                       j_latency, result, now>>

\* a gathered task runs up to the point where its request is sent; the
\* client is open only while the run is inside `async with`
CompetitorDispatch(r) ==
    \E i \in 1..Len(tasks[r]) :
        /\ pc[r] = "AwaitGather"
        /\ calls[tasks[r][i]].status = "pending"
        /\ calls' = [calls EXCEPT ![tasks[r][i]].status = "inflight"]
        /\ UNCHANGED <<heap, refs, request, pc, completed, now>>
        /\ UNCHANGED locals

\* a competitor call replies; a call left behind by a run that ended in
\* error may still reply
CompetitorReply(r, AC, D) ==
    \E i \in 1..Len(tasks[r]), content \in AC, d \in D :
        /\ calls[tasks[r][i]].status = "inflight"
        /\ now' = now + d
        /\ calls' = [calls EXCEPT ![tasks[r][i]] = Replied(@, content)]
        /\ completed' = Append(completed, tasks[r][i])
        /\ UNCHANGED <<heap, refs, request, pc>>
        /\ UNCHANGED locals

\* a competitor call fails, before or after its request was sent
CompetitorFail(r) ==
    \E i \in 1..Len(tasks[r]) :
        /\ calls[tasks[r][i]].status \in {"pending", "inflight"}
        /\ calls' = [calls EXCEPT ![tasks[r][i]] = Failed(@)]
        /\ completed' = Append(completed, tasks[r][i])
        /\ UNCHANGED <<heap, refs, request, pc, now>>
        /\ UNCHANGED locals

\* gather returns: lines 145-151, 262-266 and judge_answers up to its await
\* (lines 204-223)
GatherReturn(r, D) ==
    \E d \in D :
        LET ans  == gather(tasks[r])
            msgs == judge_messages(question[r], ans, conversation[r])
        IN  /\ pc[r] = "AwaitGather"
            /\ gather_done(tasks[r])
            /\ now' = now + d
            /\ competitors' = [competitors EXCEPT ![r] = COMPETITOR_MODELS]
            /\ answers' = [answers EXCEPT ![r] = ans]
            /\ c_latency' = [c_latency EXCEPT ![r] = now' - start[r]]
            /\ start' = [start EXCEPT ![r] = now']
            /\ calls' = Append(calls, ollama_chat(r, "judge", JUDGE_MODEL, msgs, 0,
                                                  Some("json"), "inflight"))
            /\ awaiting' = [awaiting EXCEPT ![r] = Len(calls) + 1]
            /\ pc' = [pc EXCEPT ![r] = "AwaitJudge"]
            /\ UNCHANGED <<heap, refs, request, conversation, question, raw_output, ranking, tasks,
                           total_start, q_latency, j_latency, result, completed>>

\* gather raises the first exception of a task: it leaves run_orchestration
GatherRaise(r) ==
    /\ pc[r] = "AwaitGather"
    /\ gather_raises(tasks[r])
    /\ pc' = [pc EXCEPT ![r] = "Error"]
    /\ UNCHANGED <<heap, refs, request, calls, completed, now>>
    /\ UNCHANGED locals

\* the judge call replies: lines 225-247
JudgeReply(r, JC, D) ==
    \E content \in JC, d \in D :
        LET c      == awaiting[r]
            calls1 == [calls EXCEPT ![c] = Replied(@, content)]
            raw    == calls1[c].returned
            parsed == parse_ranking(raw)
        IN  /\ pc[r] = "AwaitJudge"
            /\ calls[c].status = "inflight"
            /\ now' = now + d
            /\ calls' = calls1
            /\ completed' = Append(completed, c)
            /\ raw_output' = [raw_output EXCEPT ![r] = raw]
            /\ awaiting' = [awaiting EXCEPT ![r] = 0]
            /\ IF parsed.raised
               THEN /\ pc' = [pc EXCEPT ![r] = "Error"]
                    /\ UNCHANGED <<ranking, j_latency>>
               ELSE /\ pc' = [pc EXCEPT ![r] = "Judged"]
                    /\ ranking' = [ranking EXCEPT ![r] = parsed.ranking]
                    /\ j_latency' = [j_latency EXCEPT ![r] = now' - start[r]]
            /\ UNCHANGED <<heap, refs, request, conversation, question, competitors, answers, tasks,
                           total_start, start, q_latency, c_latency, result>>

\* mutant of JudgeFail: the await of the judge call inside the try block, so
\* that `except Exception` turns its failure into an empty ranking
JudgeFail_swallowed(r) ==
    LET c == awaiting[r]
    IN  /\ pc[r] = "AwaitJudge"
        /\ calls[c].status = "inflight"
        /\ calls' = [calls EXCEPT ![c] = Failed(@)]
        /\ completed' = Append(completed, c)
        /\ awaiting' = [awaiting EXCEPT ![r] = 0]
        /\ ranking' = [ranking EXCEPT ![r] = <<>>]
        /\ j_latency' = [j_latency EXCEPT ![r] = now - start[r]]
        /\ pc' = [pc EXCEPT ![r] = "Judged"]
        /\ UNCHANGED <<heap, refs, request, conversation, question, competitors, answers, raw_output,
                       tasks, total_start, start, q_latency, c_latency, result, now>>

\* the judge call fails: the exception leaves run_orchestration
JudgeFail(r) ==
    LET c == awaiting[r]
    IN  /\ pc[r] = "AwaitJudge"
        /\ calls[c].status = "inflight"
        /\ calls' = [calls EXCEPT ![c] = Failed(@)]
        /\ completed' = Append(completed, c)
        /\ awaiting' = [awaiting EXCEPT ![r] = 0]
        /\ pc' = [pc EXCEPT ![r] = "Error"]
        /\ UNCHANGED <<heap, refs, request, conversation, question, competitors, answers, raw_output,
                       ranking, tasks, total_start, start, q_latency, c_latency,
                       j_latency, result, now>>

\* the client is closed and the result assembled: lines 279-302
Finish(r, D) ==
    \E d \in D :
        /\ pc[r] = "Judged"
        /\ now' = now + d
        /\ result' = [result EXCEPT ![r] =
                         Some(response_payload(r, round3(total_elapsed(r, now'))))]
        /\ heap' = updated_conversation_object(r, new_turn(r)).heap
        /\ refs' = [refs EXCEPT ![r].updated_conversation =
                                    updated_conversation_object(r, new_turn(r)).at]
        /\ pc' = [pc EXCEPT ![r] = "Done"]
        /\ UNCHANGED <<request, conversation, question, competitors, answers, raw_output,
                       ranking, awaiting, tasks, total_start, start, q_latency,
                       c_latency, j_latency, calls, completed>>

-----------------------------------------------------------------------------
(* Specifications *)

\* the runs in RS are called with requests whose conversations are in CS
InitWith(RS, CS) ==
    /\ request \in [RS -> {Request(conv) : conv \in CS}]
    /\ pc = [r \in RS |-> "Start"]
    /\ conversation = [r \in RS |-> <<>>]
    /\ question = [r \in RS |-> <<>>]
    /\ competitors = [r \in RS |-> <<>>]
    /\ answers = [r \in RS |-> <<>>]
    /\ raw_output = [r \in RS |-> <<>>]
    /\ ranking = [r \in RS |-> <<>>]
    /\ awaiting = [r \in RS |-> 0]
    /\ tasks = [r \in RS |-> <<>>]
    /\ total_start = [r \in RS |-> 0]
    /\ start = [r \in RS |-> 0]
    /\ q_latency = [r \in RS |-> 0]
    /\ c_latency = [r \in RS |-> 0]
    /\ j_latency = [r \in RS |-> 0]
    /\ result = [r \in RS |-> None]
    /\ calls = <<>>
    /\ completed = <<>>
    /\ heap = request_objects(request)
    /\ refs = request_refs(request)
    /\ now = 0

\* time stands still
NoDelay == {0}

\* every awaited step takes 0..MaxDelay clock ticks
Delays == 0..MaxDelay

\* one run, every conversation, a sample of judge replies; time stands still
Init == InitWith({1}, Conversations)

Next ==
    \E r \in {1} :
        \/ Begin(r)
        \/ QuestionReply(r, QuestionContents, NoDelay)
        \/ QuestionFail(r)
        \/ CompetitorDispatch(r)
        \/ CompetitorReply(r, AnswerContents, NoDelay)
        \/ CompetitorFail(r)
        \/ GatherReturn(r, NoDelay)
        \/ GatherRaise(r)
        \/ JudgeReply(r, JudgeSample, NoDelay)
        \/ JudgeFail(r)
        \/ Finish(r, NoDelay)

Spec == Init /\ [][Next]_vars

\* the event loop resumes the coroutine once gather has an exception for it
FairSpec == Spec /\ WF_vars(GatherRaise(1))

\* the event loop runs every coroutine that is ready, and every backend call
\* that was made eventually replies or fails
FairSpecResponsive ==
    /\ Spec
    /\ WF_vars(Begin(1))
    /\ WF_vars(QuestionReply(1, QuestionContents, NoDelay) \/ QuestionFail(1))
    /\ WF_vars(CompetitorDispatch(1))
    /\ WF_vars(CompetitorReply(1, AnswerContents, NoDelay) \/ CompetitorFail(1))
    /\ WF_vars(GatherReturn(1, NoDelay))
    /\ WF_vars(GatherRaise(1))
    /\ WF_vars(JudgeReply(1, JudgeSample, NoDelay) \/ JudgeFail(1))
    /\ WF_vars(Finish(1, NoDelay))

\* one run, one question and one answer text, every judge reply
InitJudge == InitWith({1}, {None})

OneQuestion == { <<"Q", "1">> }

OneAnswer == { <<"A">> }

NextJudge ==
    \E r \in {1} :
        \/ Begin(r)
        \/ QuestionReply(r, OneQuestion, NoDelay)
        \/ QuestionFail(r)
        \/ CompetitorDispatch(r)
        \/ CompetitorReply(r, OneAnswer, NoDelay)
        \/ CompetitorFail(r)
        \/ GatherReturn(r, NoDelay)
        \/ GatherRaise(r)
        \/ JudgeReply(r, JudgeContents, NoDelay)
        \/ JudgeFail(r)
        \/ Finish(r, NoDelay)

SpecJudge == InitJudge /\ [][NextJudge]_vars

\* the event loop resumes the coroutine once the call it awaits has replied
FairSpecJudge == SpecJudge /\ WF_vars(Finish(1, NoDelay))

\* one run, one text for each reply, every awaited step taking 0..MaxDelay ticks
InitLatency == InitWith({1}, {Some(History(0))})

OneJudgeReply == { <<"{", "}">> }

NextLatency ==
    \E r \in {1} :
        \/ Begin(r)
        \/ QuestionReply(r, OneQuestion, Delays)
        \/ QuestionFail(r)
        \/ CompetitorDispatch(r)
        \/ CompetitorReply(r, OneAnswer, Delays)
        \/ CompetitorFail(r)
        \/ GatherReturn(r, Delays)
        \/ GatherRaise(r)
        \/ JudgeReply(r, OneJudgeReply, Delays)
        \/ JudgeFail(r)
        \/ Finish(r, Delays)

SpecLatency == InitLatency /\ [][NextLatency]_vars

\* longest history of the context specification
MaxCtx == 3

\* turns of every shape: no answer, one, two, three; with and without ranking
ContextTurns ==
    { [question |-> <<"H", "1">>, answers |-> <<>>, ranking |-> <<>>],
      [question |-> <<"H", "2">>, answers |-> << <<"x">> >>, ranking |-> <<IntV(1)>>],
      [question |-> <<"H", "1">>, answers |-> << <<"y">>, <<"x">> >>, ranking |-> <<>>],
      [question |-> <<"H", "3">>, answers |-> << <<"x">>, <<"y">>, <<"z", "z">> >>,
       ranking |-> <<IntV(3), IntV(1), IntV(2)>>] }

\* the histories of at most MaxCtx such turns
ContextConversations == { Some(h) : h \in SeqsUpTo(ContextTurns, MaxCtx) }

\* one run, every history of ContextConversations, one text for each reply
InitContext == InitWith({1}, ContextConversations)

NextContext ==
    \E r \in {1} :
        \/ Begin(r)
        \/ QuestionReply(r, OneQuestion, NoDelay)
        \/ QuestionFail(r)
        \/ CompetitorDispatch(r)
        \/ CompetitorReply(r, OneAnswer, NoDelay)
        \/ CompetitorFail(r)
        \/ GatherReturn(r, NoDelay)
        \/ GatherRaise(r)
        \/ JudgeReply(r, OneJudgeReply, NoDelay)
        \/ JudgeFail(r)
        \/ Finish(r, NoDelay)

SpecContext == InitContext /\ [][NextContext]_vars

\* two runs in one event loop; the backends give the two runs different texts
TwoRuns == {1, 2}

\* run 1 is called with a history of one turn, run 2 with an empty one
InitTwoRuns ==
    /\ InitWith(TwoRuns, {Some(History(0)), Some(History(1))})
    /\ request[1].conversation = Some(History(1))
    /\ request[2].conversation = Some(History(0))

QuestionFor(r) == IF r = 1 THEN { <<"Q", "1">> } ELSE { <<" ", "Q", "2", "\n">> }

AnswerFor(r) == IF r = 1 THEN { <<"A">> } ELSE { <<"B", " ">> }

JudgeReplyFor(r) ==
    IF r = 1
    THEN { <<"{", "\"", "r", "e", "s", "u", "l", "t", "s", "\"", ":", "[", "3", ",", "1", ",", "2", "]", "}">> }
    ELSE { <<"[", "1", ",", "2", "]">> }

\* the calls ts are served one after the other, in the order of ts
ServedInOrder(cs, ts) ==
    LET rank(c) == CASE cs[c].status = "pending" -> 0
                     [] cs[c].status = "inflight" -> 1
                     [] OTHER -> 2
    IN  \A i, j \in 1..Len(ts) : i < j => rank(ts[i]) >= rank(ts[j])

\* the steps of the two runs interleave in every way; to bound the state
\* space the backend calls of run 2 do not fail and are served in order,
\* while those of run 1 reply or fail in any order
NextTwoRuns ==
    \E r \in TwoRuns :
        \/ Begin(r)
        \/ QuestionReply(r, QuestionFor(r), NoDelay)
        \/ r = 1 /\ QuestionFail(r)
        \/ CompetitorDispatch(r) /\ (r = 2 => ServedInOrder(calls', tasks[r]))
        \/ CompetitorReply(r, AnswerFor(r), NoDelay) /\ (r = 2 => ServedInOrder(calls', tasks[r]))
        \/ r = 1 /\ CompetitorFail(r)
        \/ GatherReturn(r, NoDelay)
        \/ GatherRaise(r)
        \/ JudgeReply(r, JudgeReplyFor(r), NoDelay)
        \/ r = 1 /\ JudgeFail(r)
        \/ Finish(r, NoDelay)

SpecTwoRuns == InitTwoRuns /\ [][NextTwoRuns]_vars

\* the number of runs a caller chains
MaxRuns == 7

ChainRuns == 1..MaxRuns

\* run 1 is called with any history; the later runs are not called yet
InitChain ==
    /\ request \in { [r \in ChainRuns |-> IF r = 1 THEN Request(conv) ELSE Request(None)] :
                        conv \in Conversations }
    /\ pc = [r \in ChainRuns |-> "Start"]
    /\ conversation = [r \in ChainRuns |-> <<>>]
    /\ question = [r \in ChainRuns |-> <<>>]
    /\ competitors = [r \in ChainRuns |-> <<>>]
    /\ answers = [r \in ChainRuns |-> <<>>]
    /\ raw_output = [r \in ChainRuns |-> <<>>]
    /\ ranking = [r \in ChainRuns |-> <<>>]
    /\ awaiting = [r \in ChainRuns |-> 0]
    /\ tasks = [r \in ChainRuns |-> <<>>]
    /\ total_start = [r \in ChainRuns |-> 0]
    /\ start = [r \in ChainRuns |-> 0]
    /\ q_latency = [r \in ChainRuns |-> 0]
    /\ c_latency = [r \in ChainRuns |-> 0]
    /\ j_latency = [r \in ChainRuns |-> 0]
    /\ result = [r \in ChainRuns |-> None]
    /\ calls = <<>>
    /\ completed = <<>>
    /\ heap = request_objects(request)
    /\ refs = request_refs(request)
    /\ now = 0

\* the caller of run r, which is Done, builds the next request around the
\* conversation that run r returned
CallAgain(r) ==
    /\ r + 1 \in Runs
    /\ pc[r] = "Done"
    /\ pc[r + 1] = "Start"
    /\ request[r + 1].conversation = None
    /\ request' = [request EXCEPT ![r + 1] = Request(Some(result[r][1].conversation))]
    /\ heap' = heap @@ (<<r + 1, 0>> :> result[r][1].conversation)
    /\ refs' = [refs EXCEPT ![r + 1].request = <<r + 1, 0>>]
    /\ UNCHANGED <<pc, calls, completed, now>>
    /\ UNCHANGED locals

\* run r has been called: the first run, or one whose request was built
Called(r) ==
    IF r = 1 THEN TRUE
    ELSE /\ pc[r - 1] = "Done"
         /\ request[r].conversation = Some(result[r - 1][1].conversation)

\* the question model asks something else in every run
ChainQuestion(r) == { <<"Q", DigitChar(r)>> }

\* the runs of a chain one after the other; to bound the state space the
\* calls of a fan-out are served in order
NextChain ==
    \E r \in ChainRuns :
        \/ Called(r) /\ Begin(r)
        \/ QuestionReply(r, ChainQuestion(r), NoDelay)
        \/ QuestionFail(r)
        \/ CompetitorDispatch(r) /\ ServedInOrder(calls', tasks[r])
        \/ CompetitorReply(r, OneAnswer, NoDelay) /\ ServedInOrder(calls', tasks[r])
        \/ CompetitorFail(r) /\ ServedInOrder(calls', tasks[r])
        \/ GatherReturn(r, NoDelay)
        \/ GatherRaise(r)
        \/ JudgeReply(r, OneJudgeReply, NoDelay)
        \/ JudgeFail(r)
        \/ Finish(r, NoDelay)
        \/ CallAgain(r)

SpecChain == InitChain /\ [][NextChain]_vars

------------------------------------------------------------------------\* a request with every field of OrchestrateRequest given (schemas.py lines
\* 11-39); temperature in tenths
RequestOf(sid, q, conv, n, t) ==
    [ session_id      |-> sid,
      question        |-> q,
      conversation    |-> conv,
      num_competitors |-> n,
      temperature     |-> t ]

\* num_competitors: ge=1, le=5
NumCompetitors == 1..5

\* temperature: ge=0.0, le=1.5
Temperatures == {0, 15}

FieldConversations == {None, Some(History(2)), Some(History(MaxHist))}

\* the requests that differ from Request(conv) in session_id, question,
\* num_competitors and temperature only
SameConversation(conv) ==
    { RequestOf(sid, q, conv, n, t) :
        sid \in {"s1", "s2"}, q \in {None, Some(<<"U">>)},
        n \in NumCompetitors, t \in Temperatures }

\* run 1 is called with Request(conv), run 2 with a request that carries the
\* same conversation
InitFields ==
    /\ request \in UNION { { [r \in TwoRuns |-> IF r = 1 THEN Request(conv) ELSE other] :
                                other \in SameConversation(conv) } :
                            conv \in FieldConversations }
    /\ pc = [r \in TwoRuns |-> "Start"]
    /\ conversation = [r \in TwoRuns |-> <<>>]
    /\ question = [r \in TwoRuns |-> <<>>]
    /\ competitors = [r \in TwoRuns |-> <<>>]
    /\ answers = [r \in TwoRuns |-> <<>>]
    /\ raw_output = [r \in TwoRuns |-> <<>>]
    /\ ranking = [r \in TwoRuns |-> <<>>]
    /\ awaiting = [r \in TwoRuns |-> 0]
    /\ tasks = [r \in TwoRuns |-> <<>>]
    /\ total_start = [r \in TwoRuns |-> 0]
    /\ start = [r \in TwoRuns |-> 0]
    /\ q_latency = [r \in TwoRuns |-> 0]
    /\ c_latency = [r \in TwoRuns |-> 0]
    /\ j_latency = [r \in TwoRuns |-> 0]
    /\ result = [r \in TwoRuns |-> None]
    /\ calls = <<>>
    /\ completed = <<>>
    /\ heap = request_objects(request)
    /\ refs = request_refs(request)
    /\ now = 0

\* the calls of run r in the log cs, in the order the run made them
CallsIn(cs, r) == SelectSeq([c \in 1..Len(cs) |-> c], LAMBDA c : cs[c].run = r)

\* the backends treat the k-th call of run 2 as they treated the k-th call
\* of run 1: the same content in reply, or a failure for a failure
SameReplies(cs) ==
    \A k \in 1..Len(CallsIn(cs, 2)) :
        LET c == CallsIn(cs, 2)[k]
        IN  (cs[c].status \in {"replied", "failed"} /\ k <= Len(CallsIn(cs, 1))) =>
                LET d == CallsIn(cs, 1)[k]
                IN  cs[d].status = cs[c].status /\ cs[d].content = cs[c].content

FieldsJudgeReplies ==
    { <<"{", "\"", "r", "e", "s", "u", "l", "t", "s", "\"", ":", "[", "3", ",", "1", ",", "2", "]", "}">>,
      <<"n", "o", " ", "j", "s", "o", "n", " ", "h", "e", "r", "e">> }

\* run 1, then run 2 against backends that reply as they did to run 1; to
\* bound the state space the calls of a fan-out are served in order, and
\* the calls a failed run leaves behind are served no more
NextFields ==
    \E r \in TwoRuns :
        \/ Begin(r) /\ (r = 2 => pc[1] \in {"Done", "Error"})
        \/ QuestionReply(r, QuestionContents, NoDelay) /\ SameReplies(calls')
        \/ QuestionFail(r) /\ SameReplies(calls')
        \/ CompetitorDispatch(r) /\ ServedInOrder(calls', tasks[r])
        \/ CompetitorReply(r, AnswerContents, NoDelay) /\ pc[r] = "AwaitGather"
               /\ ServedInOrder(calls', tasks[r]) /\ SameReplies(calls')
        \/ CompetitorFail(r) /\ pc[r] = "AwaitGather"
               /\ ServedInOrder(calls', tasks[r]) /\ SameReplies(calls')
        \/ GatherReturn(r, NoDelay)
        \/ GatherRaise(r)
        \/ JudgeReply(r, FieldsJudgeReplies, NoDelay) /\ SameReplies(calls')
        \/ JudgeFail(r) /\ SameReplies(calls')
        \/ Finish(r, NoDelay)

SpecFields == InitFields /\ [][NextFields]_vars

-----
(* Properties *)

\* the calls of kind k that run r has made
CallsOf(r, k) == {c \in 1..Len(calls) : calls[c].run = r /\ calls[c].kind = k}

\* the position of call c in the order of completion
CompletedAt(c) == CHOOSE i \in 1..Len(completed) : completed[i] = c

\* the last 5 turns of a history, in their order; all of it when it has 5 or fewer
LastFive(conv) ==
    IF conv = None THEN <<>>
    ELSE IF Len(conv[1]) > 5
         THEN [i \in 1..5 |-> conv[1][Len(conv[1]) - 5 + i]]
         ELSE conv[1]

\* C1: the window the run holds, and the one rendered into the prompt of
\* every competitor call and of the judge call, is the last 5 turns of
\* request.conversation in their order (the whole history when it has 5 or
\* fewer turns, empty when it is None or empty).
C1_WindowIsLastFiveTurns ==
    \A r \in Runs :
        LET w == LastFive(request[r].conversation)
        IN  /\ pc[r] # "Start" => conversation[r] = w
            /\ \A c \in CallsOf(r, "competitor") :
                   calls[c].payload.messages = competitor_messages(question[r], w)
            /\ \A c \in CallsOf(r, "judge") :
                   calls[c].payload.messages = judge_messages(question[r], answers[r], w)

\* a run given 6 or more turns has judged with a window that starts at the
\* fifth turn from the end
C1_Witness ==
    \E r \in Runs :
        /\ pc[r] = "Done"
        /\ request[r].conversation # None
        /\ Len(request[r].conversation[1]) > 5
        /\ Len(conversation[r]) = 5
        /\ conversation[r][1] = HistTurn(Len(request[r].conversation[1]) - 4)
        /\ CallsOf(r, "judge") # {}

\* C2: after a fan-out that succeeded, answers[i] is what the call made to
\* competitors[i] returned, competitors being the configured list in its
\* order, in whatever order the calls completed.
C2_AnswersAlignedWithCompetitors ==
    \A r \in Runs :
        pc[r] \in {"AwaitJudge", "Judged", "Done"} =>
            /\ competitors[r] = <<"mistral:latest", "gemma3:1b", "llama3.2">>
            /\ \A i \in 1..Len(competitors[r]) :
                   \E c \in CallsOf(r, "competitor") :
                       /\ calls[c].payload.model = competitors[r][i]
                       /\ calls[c].status = "replied"
                       /\ i \in DOMAIN answers[r]
                       /\ answers[r][i] = calls[c].returned

\* the third competitor replied before the first one, with another text
C2_Witness ==
    \E r \in Runs :
        /\ pc[r] = "Done"
        /\ answers[r][1] # answers[r][3]
        /\ CompletedAt(tasks[r][3]) < CompletedAt(tasks[r][1])
        /\ CompletedAt(tasks[r][2]) < CompletedAt(tasks[r][3])

\* a competitor call of the run has failed
CompetitorFailed(r) == \E c \in CallsOf(r, "competitor") : calls[c].status = "failed"

C3_NothingAfterFailure ==
    \A r \in Runs :
        CompetitorFailed(r) =>
            /\ pc[r] \in {"AwaitGather", "Error"}
            /\ pc[r] = "AwaitGather" => gather_raises(tasks[r]) /\ ~gather_done(tasks[r])
            /\ answers[r] = <<>>
            /\ competitors[r] = <<>>
            /\ CallsOf(r, "judge") = {}
            /\ result[r] = None

\* C3: once a competitor call of a run has failed, whichever it is and
\* whatever the other calls do, the fan-out returns no answers, no judge
\* call is made, the run produces no result, and it ends in error.
C3_CompetitorFailureFailsRun ==
    /\ []C3_NothingAfterFailure
    /\ \A r \in {1} : CompetitorFailed(r) ~> (pc[r] = "Error" /\ result[r] = None)

\* a run ended in error after one competitor failed, one had replied and
\* one was still in flight
C3_Witness ==
    \E r \in Runs :
        /\ pc[r] = "Error"
        /\ \E c \in CallsOf(r, "competitor") : calls[c].status = "failed"
        /\ \E c \in CallsOf(r, "competitor") : calls[c].status = "replied"
        /\ \E c \in CallsOf(r, "competitor") : calls[c].status = "inflight"
        /\ result[r] = None

\* the judge replies from which the code extracts no results list
UnrankableReplies ==
    InvalidJsonReplies \cup NonObjectReplies \cup NoResultsReplies \cup NotListReplies
    \cup TwoObjectReplies \cup Wrapped(OtherObjects)

\* the run's judge call has replied
JudgeReplied(r) == \E c \in CallsOf(r, "judge") : calls[c].status = "replied"

\* the content of the reply to the run's judge call
JudgeContent(r) == calls[CHOOSE c \in CallsOf(r, "judge") : TRUE].content

C4_ResultAfterJudgeReply ==
    \A r \in Runs :
        JudgeReplied(r) =>
            /\ pc[r] \in {"Judged", "Done"}
            /\ JudgeContent(r) \in UnrankableReplies => ranking[r] = <<>>
            /\ pc[r] = "Done" =>
                   /\ result[r] # None
                   /\ result[r][1].question = question[r]
                   /\ result[r][1].answers = answers[r]
                   /\ result[r][1].competitors = competitors[r]
                   /\ result[r][1].ranking = ranking[r]
                   /\ result[r][1].conversation[Len(result[r][1].conversation)].ranking
                          = ranking[r]

\* C4: once the question call, every competitor call and the judge call have
\* replied, the run is never in error, whatever the judge's text, and it
\* reaches Done with a full result; a reply from which no ranking is
\* extracted gives ranking = [] in the result and in the appended turn.
C4_JudgeTextNeverFailsRun ==
    /\ []C4_ResultAfterJudgeReply
    /\ \A r \in {1} : JudgeReplied(r) ~> (pc[r] = "Done" /\ result[r] # None)

\* a run is Done on the reply "no json here", with an empty ranking in its
\* result and in the turn it appended
C4_Witness ==
    \E r \in Runs :
        /\ pc[r] = "Done"
        /\ JudgeContent(r) = <<"n", "o", " ", "j", "s", "o", "n", " ", "h", "e", "r", "e">>
        /\ result[r][1].ranking = <<>>
        /\ result[r][1].conversation[1].ranking = <<>>
        /\ Len(result[r][1].answers) = 3

\* C5: when the judge's reply is brace-free prose, one JSON object whose
\* results field is a list L, and brace-free prose, the ranking parsed is L.
C5_WrappedObjectGivesItsList ==
    \A r \in Runs :
        pc[r] \in {"Judged", "Done"} =>
            \A L \in ResultLists :
                <<JudgeContent(r), L>> \in WrappedReplies => ranking[r] = L

\* the reply blah {"results":[2,1,3]} trailing has been parsed to [2,1,3]
C5_Witness ==
    \E r \in Runs :
        /\ pc[r] = "Judged"
        /\ JudgeContent(r) =
               <<"b", "l", "a", "h", " ", "{", "\"", "r", "e", "s", "u", "l", "t", "s", "\"",
                 ":", "[", "2", ",", "1", ",", "3", "]", "}", " ", "t", "r", "a", "i", "l",
                 "i", "n", "g">>
        /\ <<JudgeContent(r), <<IntV(2), IntV(1), IntV(3)>>>> \in WrappedReplies
        /\ ranking[r] = <<IntV(2), IntV(1), IntV(3)>>

\* C6: whatever the judge replied, the parser raises nothing (the run is
\* not in error) and returns a sequence; it is empty when the reply has no
\* braces, is empty, is not JSON after slicing, decodes to something that is
\* no object, has no results field, or has a results field that is no list.
C6_ParserTotalAndFailSoft ==
    \A r \in Runs :
        JudgeReplied(r) =>
            LET text == JudgeContent(r)
            IN  /\ pc[r] # "Error"
                /\ DOMAIN ranking[r] = 1..Len(ranking[r])
                /\ (~Contains(text, "{") /\ ~Contains(text, "}")) => ranking[r] = <<>>
                /\ (\A i \in 1..Len(text) : text[i] \in Whitespace) => ranking[r] = <<>>
                /\ text \in InvalidJsonReplies \cup TwoObjectReplies => ranking[r] = <<>>
                /\ text \in NonObjectReplies => ranking[r] = <<>>
                /\ text \in NoResultsReplies \cup Wrapped(NoResultsObjects) => ranking[r] = <<>>
                /\ text \in NotListReplies \cup Wrapped(NotListObjects) => ranking[r] = <<>>

\* the reply {"results": "not-a-list"} has been parsed to the empty ranking
C6_Witness ==
    \E r \in Runs :
        /\ pc[r] = "Judged"
        /\ JudgeContent(r) =
               <<"{", "\"", "r", "e", "s", "u", "l", "t", "s", "\"", ":", " ", "\"", "n", "o",
                 "t", "-", "a", "-", "l", "i", "s", "t", "\"", "}">>
        /\ JudgeContent(r) \in NotListReplies
        /\ ranking[r] = <<>>

\* C7: the conversation a successful run returns is the truncated input
\* window followed by one new turn, whose question, answers and ranking are
\* those of the same result; an empty input conversation and the judge reply
\* {"results":[3,1,2]} give ranking [3,1,2] and a conversation of length 1.
C7_ReturnedConversationIsWindowPlusTurn ==
    \A r \in Runs :
        pc[r] = "Done" =>
            LET res == result[r][1]
                w   == LastFive(request[r].conversation)
            IN  /\ result[r] # None
                /\ Len(res.conversation) = Len(w) + 1
                /\ SubSeq(res.conversation, 1, Len(w)) = w
                /\ res.conversation[Len(w) + 1] =
                       [question |-> res.question, answers |-> res.answers,
                        ranking |-> res.ranking]
                /\ (/\ w = <<>>
                    /\ JudgeContent(r) = <<"{", "\"", "r", "e", "s", "u", "l", "t", "s", "\"",
                                           ":", "[", "3", ",", "1", ",", "2", "]", "}">>)
                   => /\ res.ranking = <<IntV(3), IntV(1), IntV(2)>>
                      /\ Len(res.conversation) = 1
                      /\ Len(res.competitors) = 3
                      /\ Len(res.answers) = 3

\* a run given 6 turns returned 6: the last five of them and its own
C7_Witness ==
    \E r \in Runs :
        /\ pc[r] = "Done"
        /\ request[r].conversation = Some(History(6))
        /\ Len(result[r][1].conversation) = 6
        /\ result[r][1].conversation[1] = HistTurn(2)
        /\ result[r][1].conversation[6].question = result[r][1].question
        /\ result[r][1].ranking = <<IntV(3), IntV(1), IntV(2)>>

\* the latency reported by a run that is Done, in milliseconds
Latency(r) == result[r][1].latency

StageSum(r) ==
    Latency(r).question_generation_sec + Latency(r).competitor_generation_sec
    + Latency(r).judge_sec

\* C8 as stated: total_sec >= question_generation_sec +
\* competitor_generation_sec + judge_sec in every result, each value being
\* the measured duration rounded to 3 decimals.
C8_TotalAtLeastStageSum ==
    \A r \in Runs : pc[r] = "Done" => Latency(r).total_sec >= StageSum(r)

\* C8, amended: each stage value rounds up by at most half a millisecond and
\* the total rounds down by at most half, so the three reported stage values
\* add up to at most total_sec + 0.002; before rounding the total is at
\* least the sum of the three stage durations.
C8_TotalAtLeastStageSumWithinRounding ==
    \A r \in Runs :
        pc[r] = "Done" =>
            /\ Latency(r).total_sec + 2 >= StageSum(r)
            /\ Latency(r).total_sec >= round3(q_latency[r] + c_latency[r] + j_latency[r])
            /\ Latency(r).question_generation_sec = round3(q_latency[r])
            /\ Latency(r).competitor_generation_sec = round3(c_latency[r])
            /\ Latency(r).judge_sec = round3(j_latency[r])

\* three stages of 1.5 ms each are reported as 0.002 s each, 0.006 s in all,
\* and their total of 4.5 ms as 0.004 s
C8_Witness ==
    \E r \in Runs :
        /\ pc[r] = "Done"
        /\ q_latency[r] > 0 /\ c_latency[r] > 0 /\ j_latency[r] > 0
        /\ Latency(r).total_sec + 2 = StageSum(r)

\* the stage of section 4.7 that a coroutine position belongs to
Stage(p) ==
    CASE p \in {"Start", "AwaitQuestion"} -> "Start"
      [] p = "AwaitGather" -> "QuestionGenerated"
      [] p = "AwaitJudge" -> "AnswersCollected"
      [] OTHER -> p

StageOrder == <<"Start", "QuestionGenerated", "AnswersCollected", "Judged", "Done">>

\* a step changes the stage of a run to the next stage, or to Error from a
\* stage that awaits a backend
C9_StageStep ==
    \A r \in Runs :
        Stage(pc'[r]) # Stage(pc[r]) =>
            \/ \E i \in 1..4 : Stage(pc[r]) = StageOrder[i] /\ Stage(pc'[r]) = StageOrder[i + 1]
            \/ /\ Stage(pc'[r]) = "Error"
               /\ Stage(pc[r]) \in {"Start", "QuestionGenerated", "AnswersCollected"}

\* the calls a run has made, by the stage it is in
C9_CallsFollowStages ==
    \A r \in Runs :
        /\ Cardinality(CallsOf(r, "question")) = IF pc[r] = "Start" THEN 0 ELSE 1
        /\ CallsOf(r, "competitor") # {} =>
               /\ \A c \in CallsOf(r, "question") : calls[c].status = "replied"
               /\ \A c \in CallsOf(r, "question"), d \in CallsOf(r, "competitor") : c < d
        /\ CallsOf(r, "judge") # {} =>
               /\ Cardinality(CallsOf(r, "competitor")) = 3
               /\ \A c \in CallsOf(r, "competitor") : calls[c].status = "replied"
               /\ \A c \in CallsOf(r, "competitor"), d \in CallsOf(r, "judge") : c < d
        /\ Stage(pc[r]) = "Start" => CallsOf(r, "competitor") = {}
        /\ Stage(pc[r]) \in {"Start", "QuestionGenerated"} => CallsOf(r, "judge") = {}
        /\ Stage(pc[r]) \in {"AnswersCollected", "Judged", "Done"} =>
               Cardinality(CallsOf(r, "judge")) = 1

\* C9: the stages of a run follow Start, QuestionGenerated, AnswersCollected,
\* Judged, Done, none skipped or repeated (a failed backend call ends the run
\* in error instead); no competitor call exists before the question call has
\* replied, and no judge call before every competitor call has replied.
C9_StagesInOrder == []C9_CallsFollowStages /\ [][C9_StageStep]_vars

\* the judge call is in flight after the three competitor calls replied,
\* the last of them first
C9_Witness ==
    \E r \in Runs :
        /\ pc[r] = "AwaitJudge"
        /\ \E c \in CallsOf(r, "judge") : calls[c].status = "inflight"
        /\ \A c \in CallsOf(r, "competitor") : calls[c].status = "replied"
        /\ CompletedAt(tasks[r][3]) < CompletedAt(tasks[r][2])
        /\ CompletedAt(tasks[r][2]) < CompletedAt(tasks[r][1])

\* C10: answers and competitors have the same length, the number of
\* configured competitor models (3), in every fan-out result and in every
\* result run_orchestration returns.
C10_AnswersAsManyAsCompetitors ==
    \A r \in Runs :
        /\ pc[r] \in {"AwaitJudge", "Judged", "Done"} =>
               /\ Len(answers[r]) = Len(competitors[r])
               /\ Len(competitors[r]) = Len(COMPETITOR_MODELS)
               /\ Len(answers[r]) = 3
        /\ pc[r] = "Done" =>
               /\ Len(result[r][1].answers) = Len(result[r][1].competitors)
               /\ Len(result[r][1].answers) = 3

\* a result with three competitors and three answers that are not all the same
C10_Witness ==
    \E r \in Runs :
        /\ pc[r] = "Done"
        /\ Len(result[r][1].competitors) = 3
        /\ Len(result[r][1].answers) = 3
        /\ result[r][1].answers[1] # result[r][1].answers[2]

\* an integer of Python: an int, or a bool, which is a subclass of int
IsInteger(x) == x.t \in {"int", "bool"}

\* C11: the ranking of every result, and of the turn it appends, holds
\* integers only: a judge reply whose results list holds a string, a nested
\* list, an object or null does not reach the result as a ranking.
C11_RankingHoldsIntegersOnly ==
    \A r \in Runs :
        pc[r] = "Done" =>
            LET res == result[r][1]
            IN  /\ \A i \in 1..Len(res.ranking) : IsInteger(res.ranking[i])
                /\ \A i \in 1..Len(res.conversation[Len(res.conversation)].ranking) :
                       IsInteger(res.conversation[Len(res.conversation)].ranking[i])

\* the calls of run r made to the competitor model mdl
CompetitorCallsTo(r, mdl) ==
    {c \in CallsOf(r, "competitor") : calls[c].payload.model = mdl}

\* a call that has replied or failed
Settled(c) == calls[c].status \in {"replied", "failed"}

C12_AtMostOneCallEach ==
    /\ \A r \in Runs :
        /\ Cardinality(CallsOf(r, "question")) <= 1
        /\ Cardinality(CallsOf(r, "judge")) <= 1
        /\ \A i \in 1..Len(COMPETITOR_MODELS) :
               Cardinality(CompetitorCallsTo(r, COMPETITOR_MODELS[i])) <= 1
        /\ Cardinality(CallsOf(r, "competitor")) <= 3
        /\ pc[r] = "Done" =>
               /\ Cardinality(CallsOf(r, "question")) = 1
               /\ Cardinality(CallsOf(r, "judge")) = 1
               /\ \A i \in 1..Len(COMPETITOR_MODELS) :
                      Cardinality(CompetitorCallsTo(r, COMPETITOR_MODELS[i])) = 1
               /\ \A c \in 1..Len(calls) : calls[c].run = r => calls[c].status = "replied"
    \* every call completes once, by a reply or by a failure
    /\ \A i \in 1..Len(completed) :
        /\ Settled(completed[i])
        /\ \A j \in 1..Len(completed) : completed[j] = completed[i] => j = i

\* a step adds calls to the log, and leaves alone what was posted and the
\* calls that have replied or failed: none is sent again
C12_CallStep ==
    /\ Len(calls') >= Len(calls)
    /\ \A c \in 1..Len(calls) :
        /\ calls'[c].payload = calls[c].payload
        /\ calls'[c].run = calls[c].run
        /\ Settled(c) => calls'[c] = calls[c]

\* C12: no backend call is retried: a run, successful or failed, makes at
\* most one question call, at most one call to each configured competitor
\* model and at most one judge call; a run that is Done made exactly one of
\* each; a call that failed stays failed and is not sent again.
C12_NoCallRetried == []C12_AtMostOneCallEach /\ [][C12_CallStep]_vars

\* a run ended in error on the failure of its judge call, having made one
\* question call, one call to each competitor model and that one judge call
C12_Witness ==
    \E r \in Runs :
        /\ pc[r] = "Error"
        /\ \E c \in CallsOf(r, "judge") : calls[c].status = "failed"
        /\ Cardinality(CallsOf(r, "judge")) = 1
        /\ Cardinality(CallsOf(r, "question")) = 1
        /\ Cardinality(CallsOf(r, "competitor")) = 3

\* the lines of a prompt that come before its "Current Question:" line
ContextPart(prompt) ==
    LET at == CHOOSE i \in 1..Len(prompt) :
                  /\ prompt[i].label = "Current Question:"
                  /\ \A j \in 1..(i - 1) : prompt[j].label # "Current Question:"
    IN  SubSeq(prompt, 1, at - 1)

\* the heading, question and answer lines among ls
TurnLines(ls) == SelectSeq(ls, LAMBDA l : l.label \in {"Turn", "Question", "Competitor"})

\* the number of heading, question and answer lines of the first k turns
LinesOfTurns(conv, k) ==
    LET F[j \in 0..k] == IF j = 0 THEN 0 ELSE F[j - 1] + 2 + Len(conv[j].answers)
    IN  F[k]

\* the line expected at position p for the history conv: turn k's heading
\* "Turn k:", its question, its answers in order labelled "Competitor i:"
ExpectedTurnLine(conv, p) ==
    LET k == CHOOSE k \in 1..Len(conv) :
                 LinesOfTurns(conv, k - 1) < p /\ p <= LinesOfTurns(conv, k)
        q == p - LinesOfTurns(conv, k - 1)
    IN  IF q = 1 THEN [label |-> "Turn", n |-> k, text |-> <<>>]
        ELSE IF q = 2 THEN [label |-> "Question", n |-> 0, text |-> conv[k].question]
        ELSE [label |-> "Competitor", n |-> q - 2, text |-> conv[k].answers[q - 2]]

\* the context shown by the prompt is the one expected for the history conv
ShowsContext(prompt, conv) ==
    LET shown == TurnLines(ContextPart(prompt))
    IN  /\ Len(shown) = LinesOfTurns(conv, Len(conv))
        /\ \A p \in 1..Len(shown) : shown[p] = ExpectedTurnLine(conv, p)
        /\ Cardinality({i \in 1..Len(shown) : shown[i].label = "Turn"}) = Len(conv)

\* the prompt of competitor call c
CompetitorPrompt(c) == calls[c].payload.messages[1].content

\* C13: the context block in the prompt of every competitor call is empty
\* for an empty history; for a history of n >= 1 turns it has exactly n turn
\* blocks in input order, headed "Turn 1:" .. "Turn n:", each with the
\* turn's question and every one of its answers, whole, labelled
\* "Competitor i:" by 1-based position.
C13_ContextBlockShowsEveryTurn ==
    \A r \in Runs :
        \A c \in CallsOf(r, "competitor") :
            /\ conversation[r] = <<>> => ContextPart(CompetitorPrompt(c)) = <<>>
            /\ conversation[r] # <<>> =>
                   /\ Head(CompetitorPrompt(c)).label = "Previous Conversation Context:"
                   /\ ShowsContext(CompetitorPrompt(c), conversation[r])
            /\ request[r].conversation # None => conversation[r] = request[r].conversation[1]

\* a competitor call whose prompt shows three turns with 3, 0 and 1 answers:
\* 3 headings, 3 questions and 4 answer lines
C13_Witness ==
    \E r \in Runs :
        \E c \in CallsOf(r, "competitor") :
            /\ Len(conversation[r]) = 3
            /\ Len(conversation[r][1].answers) = 3
            /\ Len(conversation[r][2].answers) = 0
            /\ Len(conversation[r][3].answers) = 1
            /\ Len(TurnLines(ContextPart(CompetitorPrompt(c)))) = 10
            /\ calls[c].status = "replied"

\* the texts the backends give run r, as ollama_chat returns them
OwnQuestion(r) == IF r = 1 THEN <<"Q", "1">> ELSE <<"Q", "2">>

OwnAnswer(r) == IF r = 1 THEN <<"A">> ELSE <<"B">>

\* the ranking in the judge's reply to run r
OwnRanking(r) == IF r = 1 THEN <<IntV(3), IntV(1), IntV(2)>> ELSE <<>>

C14_OwnInputsOnly ==
    \A r \in Runs :
        LET w == LastFive(request[r].conversation)
        IN  /\ pc[r] # "Start" => conversation[r] = w
            /\ awaiting[r] # 0 => calls[awaiting[r]].run = r
            /\ \A i \in 1..Len(tasks[r]) : calls[tasks[r][i]].run = r
            /\ pc[r] \in {"AwaitGather", "AwaitJudge", "Judged", "Done"} =>
                   question[r] = OwnQuestion(r)
            /\ \A c \in CallsOf(r, "competitor") :
                   calls[c].payload.messages = competitor_messages(OwnQuestion(r), w)
            /\ pc[r] \in {"AwaitJudge", "Judged", "Done"} =>
                   answers[r] = <<OwnAnswer(r), OwnAnswer(r), OwnAnswer(r)>>
            /\ \A c \in CallsOf(r, "judge") :
                   calls[c].payload.messages =
                       judge_messages(OwnQuestion(r),
                                      <<OwnAnswer(r), OwnAnswer(r), OwnAnswer(r)>>, w)
            /\ pc[r] \in {"Judged", "Done"} => ranking[r] = OwnRanking(r)
            /\ pc[r] = "Done" =>
                   /\ result[r][1].question = OwnQuestion(r)
                   /\ result[r][1].answers = <<OwnAnswer(r), OwnAnswer(r), OwnAnswer(r)>>
                   /\ result[r][1].ranking = OwnRanking(r)
                   /\ result[r][1].conversation =
                          w \o << [question |-> OwnQuestion(r),
                                   answers  |-> <<OwnAnswer(r), OwnAnswer(r), OwnAnswer(r)>>,
                                   ranking  |-> OwnRanking(r)] >>

\* the locals of run r
LocalsOf(r) ==
    <<conversation[r], question[r], competitors[r], answers[r], raw_output[r], ranking[r],
      awaiting[r], tasks[r], total_start[r], start[r], q_latency[r], c_latency[r],
      j_latency[r], result[r], pc[r], request[r]>>

\* a step is the step of one run: it leaves the locals and the calls of
\* every other run as they are
C14_StepOfOneRun ==
    \E r \in Runs :
        \A s \in Runs \ {r} :
            /\ LocalsOf(s)' = LocalsOf(s)
            /\ \A c \in 1..Len(calls) : calls[c].run = s => calls'[c] = calls[c]
            /\ \A c \in (Len(calls) + 1)..Len(calls') : calls'[c].run = r

\* C14: two runs interleaved in any way do not affect each other: the
\* window, question, answers, ranking and returned conversation of each are
\* those given by its own request and by the replies to its own calls, and
\* a step of one run changes nothing of the other.
C14_RunsIndependent == []C14_OwnInputsOnly /\ [][C14_StepOfOneRun]_vars

\* both runs are Done with their own results, after run 2 made its question
\* call first, run 1 made its competitor calls before run 2 made its own, and
\* run 2's judge replied before run 1's last competitor
C14_Witness ==
    /\ Runs = {1, 2}
    /\ pc[1] = "Done" /\ pc[2] = "Done"
    /\ result[1][1].answers # result[2][1].answers
    /\ \E c \in CallsOf(2, "question"), d \in CallsOf(1, "question") : c < d
    /\ \A c \in CallsOf(1, "competitor"), d \in CallsOf(2, "competitor") : c < d
    /\ \E c \in CallsOf(2, "judge"), d \in CallsOf(1, "competitor") :
           CompletedAt(c) < CompletedAt(d)

\* C15: a dispatched backend call is never aborted by the orchestrator: as
\* long as a call is in flight the run has not closed the client that
\* carries it, so the call reaches its own reply or failure; this also in a
\* run that is ending in error after a sibling competitor call failed.
C15_DispatchedCallNeverAborted ==
    \A c \in 1..Len(calls) :
        calls[c].status = "inflight" => ~client_closed(calls[c].run)

\* the user prompt of judge call c
JudgePrompt(c) == calls[c].payload.messages[2].content

\* the position in a prompt of its first line labelled lbl
LineAt(prompt, lbl) ==
    CHOOSE i \in 1..Len(prompt) :
        prompt[i].label = lbl /\ \A j \in 1..(i - 1) : prompt[j].label # lbl

\* the lines of a judge prompt between "Responses:" and the output contract
ResponsesPart(prompt) ==
    SubSeq(prompt, LineAt(prompt, "Responses:") + 1,
           LineAt(prompt, "Return ONLY valid JSON in this exact structure:") - 1)

\* the text on the line that follows the heading "Competitor i:" of the responses
AnswerUnder(prompt, i) ==
    LET part == ResponsesPart(prompt)
        at   == CHOOSE p \in 1..Len(part) : part[p].label = "Competitor" /\ part[p].n = i
    IN  part[at + 1].text

\* C16: in the judge prompt the answers are headed "Competitor 1:" ..
\* "Competitor N:" in order, the answer under "Competitor i:" being the i-th
\* answer, which is the reply of the i-th competitor model; the context block
\* numbers the answers of the prior turns by the same 1-based positions; so
\* an integer k of the ranking denotes the k-th competitor of the result.
C16_JudgePromptNumbersAnswersByPosition ==
    \A r \in Runs :
        \A c \in CallsOf(r, "judge") :
            LET prompt   == JudgePrompt(c)
                headings == SelectSeq(ResponsesPart(prompt), LAMBDA l : l.label = "Competitor")
            IN  /\ Len(headings) = Len(answers[r])
                /\ \A i \in 1..Len(headings) : headings[i].n = i
                /\ \A i \in 1..Len(answers[r]) :
                       /\ AnswerUnder(prompt, i) = answers[r][i]
                       /\ \A d \in CallsOf(r, "competitor") :
                              calls[d].payload.model = competitors[r][i] =>
                                  calls[d].returned = AnswerUnder(prompt, i)
                /\ ShowsContext(prompt, conversation[r])
                /\ pc[r] = "Done" =>
                       \A i \in 1..Len(result[r][1].ranking) :
                           LET k == result[r][1].ranking[i]
                           IN  (k.t = "int" /\ k.v \in 1..Len(result[r][1].answers)) =>
                                   /\ AnswerUnder(prompt, k.v) = result[r][1].answers[k.v]
                                   /\ \A d \in CallsOf(r, "competitor") :
                                          calls[d].payload.model = result[r][1].competitors[k.v]
                                          => calls[d].returned = AnswerUnder(prompt, k.v)

\* a run is Done with ranking [3,1,2]; its judge prompt showed a context of
\* five turns and, under "Competitor 3:", the third model's reply, which is
\* not the first model's
C16_Witness ==
    \E r \in Runs :
        \E c \in CallsOf(r, "judge") :
            /\ pc[r] = "Done"
            /\ result[r][1].ranking = <<IntV(3), IntV(1), IntV(2)>>
            /\ Len(conversation[r]) = 5
            /\ answers[r][3] # answers[r][1]
            /\ AnswerUnder(JudgePrompt(c), 3) = answers[r][3]
            /\ calls[tasks[r][3]].payload.model = "llama3.2"
            /\ calls[tasks[r][3]].returned = answers[r][3]

\* the conversation run r returned
Returned(r) == result[r][1].conversation

\* the turn run r appended
OwnTurn(r) == [question |-> question[r], answers |-> answers[r], ranking |-> ranking[r]]

Min(a, b) == IF a < b THEN a ELSE b

\* the length of the history run r was called with
InputLen(r) == IF request[r].conversation = None THEN 0 ELSE Len(request[r].conversation[1])

\* in a chain of runs: every window has at most 5 turns, every returned
\* conversation has min(len(input), 5) + 1 turns, at most 6, and a run after
\* the first gets the conversation the run before it returned
C17_ChainLengths ==
    \A r \in Runs :
        /\ pc[r] # "Start" =>
               /\ Len(conversation[r]) <= 5
               /\ Len(conversation[r]) = Min(InputLen(r), 5)
               /\ r > 1 => /\ pc[r - 1] = "Done"
                           /\ request[r].conversation = Some(Returned(r - 1))
        /\ pc[r] = "Done" =>
               /\ Len(Returned(r)) = Min(InputLen(r), 5) + 1
               /\ Len(Returned(r)) <= 6
               /\ Returned(r)[Len(Returned(r))] = OwnTurn(r)

\* run r dropped the oldest turn of the conversation the run before it returned
DropsOldest(r) ==
    /\ Len(Returned(r - 1)) = 6
    /\ Returned(r) = Tail(Returned(r - 1)) \o <<OwnTurn(r)>>

\* run r dropped no turn of the conversation the run before it returned
DropsNothing(r) == Returned(r) = Returned(r - 1) \o <<OwnTurn(r)>>

\* C17 as stated: in a chain of successful runs, from any starting history,
\* the lengths are as above and from the sixth run on the oldest turn of the
\* previous returned conversation is the one dropped.
C17_ChainDropsOldestFromSixthRun ==
    /\ C17_ChainLengths
    /\ \A r \in Runs : (r >= 6 /\ pc[r] = "Done") => DropsOldest(r)

\* C17, amended: the oldest turn of the previous returned conversation is
\* dropped by every run whose input has 6 turns and by no other; that is
\* every run from the seventh on, and the sixth too unless the chain started
\* from an empty history.
C17_ChainDropsOldestFromSeventhRun ==
    /\ C17_ChainLengths
    /\ \A r \in Runs :
        (r > 1 /\ pc[r] = "Done") =>
            /\ Len(Returned(r - 1)) = 6 => DropsOldest(r)
            /\ Len(Returned(r - 1)) < 6 => DropsNothing(r)
            /\ r >= 7 => DropsOldest(r)
            /\ (r = 6 /\ InputLen(1) > 0) => DropsOldest(r)
            /\ (r = 6 /\ InputLen(1) = 0) => DropsNothing(r) /\ Len(Returned(r)) = 6

\* a chain started from no history: the sixth run returned the six turns of
\* runs 1 to 6, and the seventh dropped the turn of run 1
C17_Witness ==
    /\ 7 \in Runs
    /\ pc[7] = "Done"
    /\ InputLen(1) = 0
    /\ Len(Returned(6)) = 6
    /\ Returned(6)[1].question = <<"Q", "1">>
    /\ Len(Returned(7)) = 6
    /\ Returned(7)[1].question = <<"Q", "2">>
    /\ Returned(7)[6].question = <<"Q", "7">>

\* the run has ended
Ended(r) == pc[r] \in {"Done", "Error"}

\* the calls of run r that were posted and have not replied or failed
Unanswered(r) == {c \in 1..Len(calls) : calls[c].run = r /\ calls[c].status = "inflight"}

\* every run eventually ends
C18_EveryRunEnds == \A r \in {1} : <>Ended(r)

\* C18 as stated: if every dispatched call eventually replies or fails,
\* every run eventually reaches Done or Error; and a run never reaches Done
\* or Error while a call it dispatched has not responded.
C18_RunEndsIffCallsRespond ==
    /\ C18_EveryRunEnds
    /\ [](\A r \in Runs : Ended(r) => Unanswered(r) = {})

\* what a run that has moved on, or ended, has heard from its calls
C18_EndsOnlyOnResponses ==
    \A r \in Runs :
        \* the question call and the judge call are awaited alone
        /\ (\E c \in CallsOf(r, "question") : calls[c].status = "inflight")
               => pc[r] = "AwaitQuestion"
        /\ (\E c \in CallsOf(r, "judge") : calls[c].status = "inflight")
               => pc[r] = "AwaitJudge"
        \* the fan-out returns on the last reply, and raises on the first failure
        /\ (\E c \in CallsOf(r, "competitor") : calls[c].status \in {"pending", "inflight"})
               => \/ pc[r] = "AwaitGather"
                  \/ pc[r] = "Error" /\ CompetitorFailed(r)
        /\ pc[r] = "Done" => \A c \in 1..Len(calls) :
                                 calls[c].run = r => calls[c].status = "replied"
        \* no timeout: a run in error has a call that failed
        /\ pc[r] = "Error" => \E c \in 1..Len(calls) :
                                  calls[c].run = r /\ calls[c].status = "failed"

\* C18, amended: if every dispatched call eventually replies or fails, every
\* run eventually reaches Done or Error.  A run reaches Done only when every
\* call it made has replied and Error only when one has failed; while the
\* question call or the judge call has not responded the run stays where
\* it is; a competitor call that has not responded keeps the run in the
\* fan-out unless another competitor call fails, which ends the run in error
\* at once.
C18_RunEndsOnResponsesOrSiblingFailure ==
    /\ C18_EveryRunEnds
    /\ []C18_EndsOnlyOnResponses

\* a run ended in error on the failure of one competitor call while another
\* was in flight and the third had not been posted
C18_Witness ==
    \E r \in Runs :
        /\ pc[r] = "Error"
        /\ \E c \in CallsOf(r, "competitor") : calls[c].status = "failed"
        /\ \E c \in CallsOf(r, "competitor") : calls[c].status = "inflight"
        /\ \E c \in CallsOf(r, "competitor") : calls[c].status = "pending"
        /\ Unanswered(r) # {}

\* a call of kind k of run r has failed
StageFailed(r, k) == \E c \in CallsOf(r, k) : calls[c].status = "failed"

C19_NoLaterStageAfterFailure ==
    \A r \in Runs :
        /\ StageFailed(r, "question") =>
               /\ CallsOf(r, "competitor") = {}
               /\ CallsOf(r, "judge") = {}
               /\ pc[r] = "Error"
               /\ result[r] = None
        /\ StageFailed(r, "competitor") =>
               /\ CallsOf(r, "judge") = {}
               /\ pc[r] \in {"AwaitGather", "Error"}
               /\ result[r] = None
        /\ StageFailed(r, "judge") =>
               /\ pc[r] = "Error"
               /\ result[r] = None
               /\ Len(answers[r]) = 3
               /\ \A c \in CallsOf(r, "competitor") : calls[c].status = "replied"
        \* a judge that replies, whatever its text, does not fail the run
        /\ JudgeReplied(r) => pc[r] \in {"Judged", "Done"}

\* C19: a backend failure at any stage aborts the run before a later stage
\* starts: after a failed question call no competitor call and no judge call
\* is ever made; after a failed competitor call no judge call is ever made;
\* a failed judge call ends the run in error with no result although all
\* answers were collected; in each case the run ends in error.
C19_FailureAbortsRun ==
    /\ []C19_NoLaterStageAfterFailure
    /\ \A r \in {1} :
        /\ StageFailed(r, "question") ~> (pc[r] = "Error" /\ CallsOf(r, "competitor") = {})
        /\ StageFailed(r, "competitor") ~> (pc[r] = "Error" /\ CallsOf(r, "judge") = {})
        /\ StageFailed(r, "judge") ~> (pc[r] = "Error" /\ result[r] = None)

\* a run ended in error on the failure of its judge call, with the three
\* answers collected, two of them different, and no result
C19_Witness ==
    \E r \in Runs :
        /\ pc[r] = "Error"
        /\ StageFailed(r, "judge")
        /\ Len(answers[r]) = 3
        /\ answers[r][1] # answers[r][2]
        /\ result[r] = None

\* the replies that hold two or more separate JSON objects
ManyObjectReplies == TwoObjectReplies \cup SeveralObjectReplies

\* C20: when the judge's reply holds two or more separate JSON objects one
\* after another, with or without prose between them, the slice from the
\* first "{" to the last "}" spans all of them, decoding it fails, and the
\* ranking is empty, also when one of the objects holds a valid results list.
C20_SeveralObjectsGiveEmptyRanking ==
    \A r \in Runs :
        (JudgeReplied(r) /\ JudgeContent(r) \in ManyObjectReplies) =>
            LET raw == raw_output[r]
                cut == Slice(raw, find(raw, "{"), rfind(raw, "}") + 1)
            IN  /\ pc[r] \in {"Judged", "Done"}
                /\ ranking[r] = <<>>
                /\ pc[r] = "Done" => result[r][1].ranking = <<>>
                \* the slice starts with the first object and ends with the last
                /\ Head(cut) = "{" /\ cut[Len(cut)] = "}"
                \* a proper prefix of it is one JSON object, the whole is not JSON
                /\ \E i \in 2..(Len(cut) - 1) :
                       cut[i] = "}" /\ json_loads(SubSeq(cut, 1, i)).ok
                /\ ~json_loads(cut).ok

\* the reply {"results":[2,1]} or {"results":[1,3]} has been parsed to the
\* empty ranking
C20_Witness ==
    \E r \in Runs :
        /\ pc[r] = "Judged"
        /\ JudgeContent(r) =
               <<"{", "\"", "r", "e", "s", "u", "l", "t", "s", "\"", ":", "[", "2", ",", "1", "]", "}",
                 " ", "o", "r", " ",
                 "{", "\"", "r", "e", "s", "u", "l", "t", "s", "\"", ":", "[", "1", ",", "3", "]", "}">>
        /\ JudgeContent(r) \in ManyObjectReplies
        /\ ranking[r] = <<>>

\* the list the request of run r carries, as the caller sees it now
InputNow(r) == heap[refs[r].request]

\* the names of run r are bound to lists that hold what the run computes with
BoundToValues(r) ==
    /\ pc[r] # "Start" => /\ refs[r].conversation \in DOMAIN heap
                          /\ heap[refs[r].conversation] = conversation[r]
    /\ pc[r] = "Done" => /\ refs[r].updated_conversation \in DOMAIN heap
                         /\ heap[refs[r].updated_conversation] = result[r][1].conversation

\* the list of the request holds the turns the run was called with, and the
\* returned conversation is another list
C21_InputAsCalled ==
    \A r \in Runs :
        /\ BoundToValues(r)
        /\ (request[r].conversation = None) = (refs[r].request = NULL)
        /\ request[r].conversation # None => InputNow(r) = request[r].conversation[1]
        /\ pc[r] = "Done" => refs[r].updated_conversation # refs[r].request

\* no step changes a list that exists: a step only creates lists
C21_ListsOnlyCreated ==
    /\ request' = request
    /\ \A a \in DOMAIN heap : a \in DOMAIN heap' /\ heap'[a] = heap[a]
    /\ \A r \in Runs : refs'[r].request = refs[r].request

\* C21: run_orchestration never modifies the caller's request.conversation:
\* in every state of a run, also after it is Done or has failed, the list
\* of the request holds the same turns in the same order as when the run
\* was called, and the returned conversation is a list of its own, also
\* when the input has 5 or fewer turns.
C21_RequestConversationNeverModified ==
    []C21_InputAsCalled /\ [][C21_ListsOnlyCreated]_vars

\* a run called with three turns is Done: it returned four turns in a list
\* of its own, and the list of the request still holds the three
C21_Witness ==
    \E r \in Runs :
        /\ pc[r] = "Done"
        /\ request[r].conversation = Some(History(3))
        /\ InputNow(r) = History(3)
        /\ Len(heap[refs[r].updated_conversation]) = 4
        /\ refs[r].updated_conversation # refs[r].request
        /\ refs[r].conversation \notin {refs[r].request, refs[r].updated_conversation}

\* what a call asks of the backend: the model, the messages, the temperature
\* and the format
Asked(c) == <<calls[c].kind, calls[c].payload>>

\* the calls run 2 has made are, one for one, the calls run 1 made
SameCallsSoFar ==
    /\ Len(CallsIn(calls, 2)) <= Len(CallsIn(calls, 1))
    /\ \A k \in 1..Len(CallsIn(calls, 2)) :
           Asked(CallsIn(calls, 2)[k]) = Asked(CallsIn(calls, 1)[k])

\* both runs have ended: they made the same calls and returned the same
SameOutcome ==
    (pc[1] \in {"Done", "Error"} /\ pc[2] \in {"Done", "Error"}) =>
        /\ pc[1] = pc[2]
        /\ Len(CallsIn(calls, 1)) = Len(CallsIn(calls, 2))
        /\ pc[1] = "Done" =>
               /\ result[1][1].question = result[2][1].question
               /\ result[1][1].competitors = result[2][1].competitors
               /\ result[1][1].answers = result[2][1].answers
               /\ result[1][1].ranking = result[2][1].ranking
               /\ result[1][1].conversation = result[2][1].conversation

\* a run that reached the fan-out made one competitor call per model of the
\* static list, whatever num_competitors it was asked for
StaticFanOut(r) ==
    pc[r] \in {"AwaitGather", "AwaitJudge", "Judged", "Done"} =>
        /\ Cardinality(CallsOf(r, "competitor")) = Len(COMPETITOR_MODELS)
        /\ Len(tasks[r]) = Len(COMPETITOR_MODELS)
        /\ \A i \in 1..Len(tasks[r]) : calls[tasks[r][i]].payload.model = COMPETITOR_MODELS[i]

====
